---- MODULE Spec2Model ----
(***************************************************************************)
(* Rotary bin carousel firmware (ESP32_InventoryOutputs.ino): break-beam   *)
(* gate state machine, deferred command queue, bin navigator, inventory    *)
(* sequencer, homing and the e-stop latch.                                 *)
(*                                                                         *)
(* The firmware is one cooperative thread.  Its position is the call      *)
(* stack `stack`: one frame per active C function, the head being the      *)
(* function that is running.  A frame holds the label of the statement     *)
(* the function resumes at and its locals.  One action models the code of  *)
(* one function between two calls of the gate, queue, inventory, homing    *)
(* or navigation functions; a seek or a pulse burst is modelled by its     *)
(* outcome.                                                                *)
(***************************************************************************)
EXTENDS Integers, Sequences, FiniteSets, TLC

----------------------------------------------------------------------------
(* Program constants *)

BEAM_DEBOUNCE_MS == 20

BEAM_ARM_DELAY_MS == 2000

US_WINDOW_MS == 4000

HOME_SAMPLE_EVENTS == 10

STEPS_PER_REV == 1600

StartMs == 300

UNKNOWN == -1

(* Bounds of the model *)

MaxInstant == 5

ShortGapSteps == 160

----------------------------------------------------------------------------
VARIABLES
  \* globals of the sketch
  estop, homed, currentBin, encoderGapThresholdSteps,
  beamStableBlocked, beamLastRawBlocked, beamLastChangeMs,
  gateLockout, gateOpenedAtMs, inventoryPending, lastSelectedBin,
  inventoryRequested, binRequested, requestedBin,
  \* control: call stack, return value of the last call
  stack, ret,
  \* environment: millis()
  now,
  \* observers of the console (never read by the program): the last gate
  \* message and the instant of the last "GATE: OPEN"; the refused bin
  \* commands waiting in the queue (0, 1, or 2 for more than one); whether an
  \* 'i' command is waiting; the bin of the last refused command and whether
  \* the beam was stably blocked when it was refused
  obsGate, obsOpenAt, obsBinCmds, obsInvFresh, obsRefusedBin,
  obsRefusedBlocked,
  \* bookkeeping of the moveToBin in progress (never read by the program):
  \* its moveOneBin calls and its pulse bursts
  moveOneCalls, bursts,
  \* motor driver and serial input: the enable line, an unread 'e' byte in
  \* the receive buffer, and two counters never read by the program, the
  \* pulses started with such a byte unread or the latch set and the calls of
  \* enableDriver(true)
  en, serialE, lateStarts, enables,
  \* homing: the array gaps[], the seeks that have succeeded since the entry
  \* of homeRoutine (never read by the program), and the press event the
  \* drum is at
  gaps, seeks, drum,
  \* distance estimation: the array meds[], the array s[] of the block being
  \* filled, the time since t0, the value the estimator returned, and the
  \* lines the inventory sequence has written on the console
  meds, samples, elapsed, retCm, console

gateVars == <<beamStableBlocked, beamLastRawBlocked, beamLastChangeMs,
              gateLockout, gateOpenedAtMs>>

queueVars == <<inventoryRequested, binRequested, requestedBin>>

navVars == <<homed, currentBin, encoderGapThresholdSteps>>

gateObs == <<obsGate, obsOpenAt>>

queueObs == <<obsBinCmds, obsInvFresh, obsRefusedBin, obsRefusedBlocked>>

countVars == <<moveOneCalls, bursts>>

pulseVars == <<en, serialE, lateStarts, enables>>

homingVars == <<gaps, seeks, drum>>

measVars == <<meds, samples, elapsed, retCm, console>>

\* what the command-level model of the sketch leaves alone
auxVars == <<pulseVars, homingVars, measVars>>

vars == <<estop, navVars, gateVars, inventoryPending, lastSelectedBin,
          queueVars, stack, ret, now, gateObs, queueObs, countVars, auxVars>>

----------------------------------------------------------------------------
(* millis(): the clock is read on a sparse grid of instants, the start of  *)
(* each phase of the operator cycle "rearm delay, measurement window,     *)
(* rearm delay, ..." and one debounce period after it.                     *)

PhaseStart(b) ==
  (BEAM_ARM_DELAY_MS * ((b + 1) \div 2)) + (US_WINDOW_MS * (b \div 2))

Instant(i) == StartMs + PhaseStart(i \div 2) + (BEAM_DEBOUNCE_MS * (i % 2))

Grid == { Instant(i) : i \in 0..MaxInstant }

\* the instants the clock can have reached after a rotation, a measurement
\* or any other wait
Later == { t \in Grid : t >= now }

\* the instants the clock can have reached one pass of an idle loop later:
\* the same instant of the grid or the next one
Soon == { t \in Later : \A u \in Later : u = now \/ t <= u }

\* unsigned long subtraction of two millis() readings; the clock of the model
\* stays far below 2^32 ms, so the difference never wraps
Elapsed(later, earlier) == later - earlier

Bins == 0..3

Commands == {"e", "h", "i", "bin0", "bin1", "bin2", "bin3", "x"}

ParseBinCommand(cmd) ==
  CASE cmd = "bin0" -> 0
    [] cmd = "bin1" -> 1
    [] cmd = "bin2" -> 2
    [] cmd = "bin3" -> 3
    [] OTHER -> UNKNOWN

\* (long)(x + 0.5f) of a non-negative ratio num/den
RoundDiv(num, den) == ((2 * num) + den) \div (2 * den)

----------------------------------------------------------------------------
(* The drum: five press events per revolution, the four bin notches and   *)
(* the encoder artifact ShortGapSteps before the bin-0 notch.             *)

EventPos(k) == IF k = 4 THEN STEPS_PER_REV - ShortGapSteps
               ELSE k * (STEPS_PER_REV \div 4)

NextEvent(k) == (k + 1) % 5

GapAfter(k) == (EventPos(NextEvent(k)) - EventPos(k) + STEPS_PER_REV) % STEPS_PER_REV

----------------------------------------------------------------------------
(* Call stack *)

Frame(l, a, b) == [pc |-> l, a |-> a, b |-> b]

Top == Head(stack)

pc == Top.pc

Jump(l) == stack' = <<[Top EXCEPT !.pc = l]>> \o Tail(stack)

Call(retLabel, f) == stack' = <<f, [Top EXCEPT !.pc = retLabel]>> \o Tail(stack)

Return(v) == stack' = Tail(stack) /\ ret' = v

Active(l) == \E i \in DOMAIN stack : stack[i].pc = l

----------------------------------------------------------------------------
(* Gate state machine: updateBeamDebounce *)

GateReady == ~gateLockout /\ ~inventoryPending /\ ~beamStableBlocked

\* a raw change accepted in the call that samples it
DebouncedAtOnce(t, lastChange) == Elapsed(t, lastChange) >= 0

\* line 336
Debounced(t, lastChange) == Elapsed(t, lastChange) >= BEAM_DEBOUNCE_MS

\* the rearm test with the debounce period taken for the rearm delay
ArmExpiredAfterDebounce(t, lockout, stableBlocked, openedAt) ==
  /\ lockout
  /\ ~stableBlocked
  /\ openedAt # 0
  /\ Elapsed(t, openedAt) >= BEAM_DEBOUNCE_MS

\* lines 352-353
ArmExpired(t, lockout, stableBlocked, openedAt) ==
  /\ lockout
  /\ ~stableBlocked
  /\ openedAt # 0
  /\ Elapsed(t, openedAt) >= BEAM_ARM_DELAY_MS

\* an accepted block that does not lock the gate
GateLockoutKept(toBlocked) == gateLockout

\* lines 337-339: gateLockout after the debounce, toBlocked telling whether a
\* stable block was accepted
GateLockoutAfter(toBlocked) == toBlocked \/ gateLockout

\* lines 327-365, as a step of the caller, at one of `instants`.  The beam is
\* sampled and debounced,
\* a stable transition is accepted, then the rearm timer is tested (its
\* millis() reading falls on the same instant of the grid as the first).  On
\* expiry inventory becomes pending and the queue is drained (line 362) before
\* the caller goes on with the stack `drained`; otherwise the caller goes on
\* with the stack `returned`.
UpdateBeamDebounce(instants, returned, drained) ==
  \E raw \in BOOLEAN, t \in instants :
       LET lastChange == IF raw # beamLastRawBlocked THEN t ELSE beamLastChangeMs
           accepted   == Debounced(t, lastChange) /\ raw # beamStableBlocked
           toBlocked  == accepted /\ raw
           toOpen     == accepted /\ ~raw
           stable     == IF accepted THEN raw ELSE beamStableBlocked
           lockout    == GateLockoutAfter(toBlocked)
           openedAt   == IF toBlocked THEN 0
                         ELSE IF toOpen THEN t ELSE gateOpenedAtMs
           expired    == ArmExpired(t, lockout, stable, openedAt)
       IN  /\ now' = t
           /\ beamLastRawBlocked' = raw
           /\ beamLastChangeMs' = lastChange
           /\ beamStableBlocked' = stable
           /\ gateLockout' = IF expired THEN FALSE ELSE lockout
           /\ gateOpenedAtMs' = IF expired THEN 0 ELSE openedAt
           /\ inventoryPending' = IF expired THEN TRUE ELSE inventoryPending
           /\ obsGate' = IF expired THEN "ready"
                         ELSE IF toBlocked THEN "blocked"
                         ELSE IF toOpen THEN "open" ELSE obsGate
           /\ obsOpenAt' = IF expired \/ toBlocked THEN 0
                           ELSE IF toOpen THEN t ELSE obsOpenAt
           /\ stack' = IF expired
                         THEN <<Frame("try_entry", UNKNOWN, 0)>> \o drained
                         ELSE returned

----------------------------------------------------------------------------
(* Deferred command queue: tryRunQueuedCommands *)

\* line 296
InventoryRunnable == inventoryPending /\ ~gateLockout /\ ~beamStableBlocked

\* the replay test without the inventory-pending conjunct
BinRunnableWhilePending == ~gateLockout

\* line 306
BinRunnable == ~gateLockout /\ ~inventoryPending

\* a drain attempt would run a request (lines 292, 295-296, 305-306)
DrainRuns ==
  /\ ~estop
  /\ \/ inventoryRequested /\ InventoryRunnable
     \/ binRequested /\ BinRunnable

\* the drain that runs the queued inventory without clearing its flag
TryRunQueuedKeepingFlag ==
  /\ pc = "try_entry"
  /\ IF estop
       THEN /\ Return(FALSE)
            /\ UNCHANGED <<queueVars, queueObs>>
       ELSE IF inventoryRequested /\ InventoryRunnable
         THEN /\ obsInvFresh' = FALSE
              /\ Call("try_inv_ret", Frame("inv_entry", 0, 0))
              /\ UNCHANGED <<inventoryRequested, binRequested, requestedBin, ret,
                             obsBinCmds, obsRefusedBin, obsRefusedBlocked>>
       ELSE IF binRequested /\ BinRunnable
         THEN /\ binRequested' = FALSE
              /\ requestedBin' = UNKNOWN
              /\ obsBinCmds' = 0
              /\ obsRefusedBin' = UNKNOWN
              /\ obsRefusedBlocked' = FALSE
              /\ stack' = <<Frame("mtb_entry", requestedBin, 0),
                            [Top EXCEPT !.pc = "try_bin_ret", !.a = requestedBin,
                                        !.b = IF obsRefusedBlocked THEN 1 ELSE 0]>>
                          \o Tail(stack)
              /\ UNCHANGED <<inventoryRequested, ret, obsInvFresh>>
       ELSE /\ Return(FALSE)
            /\ UNCHANGED <<queueVars, queueObs>>
  /\ UNCHANGED <<estop, navVars, gateVars, inventoryPending, lastSelectedBin,
                 now, gateObs, countVars>>
  /\ UNCHANGED auxVars

\* lines 291-315, up to the call; frame: a = b (the bin replayed), b = 1 if
\* the console showed the gate blocked when the request was queued
TryRunQueued ==
  /\ pc = "try_entry"
  /\ IF estop
       THEN /\ Return(FALSE)
            /\ UNCHANGED <<queueVars, queueObs>>
       ELSE IF inventoryRequested /\ InventoryRunnable
         THEN /\ inventoryRequested' = FALSE
              /\ obsInvFresh' = FALSE
              /\ Call("try_inv_ret", Frame("inv_entry", 0, 0))
              /\ UNCHANGED <<binRequested, requestedBin, ret,
                             obsBinCmds, obsRefusedBin, obsRefusedBlocked>>
       ELSE IF binRequested /\ BinRunnable
         THEN /\ binRequested' = FALSE
              /\ requestedBin' = UNKNOWN
              /\ obsBinCmds' = 0
              /\ obsRefusedBin' = UNKNOWN
              /\ obsRefusedBlocked' = FALSE
              /\ stack' = <<Frame("mtb_entry", requestedBin, 0),
                            [Top EXCEPT !.pc = "try_bin_ret", !.a = requestedBin,
                                        !.b = IF obsRefusedBlocked THEN 1 ELSE 0]>>
                          \o Tail(stack)
              /\ UNCHANGED <<inventoryRequested, ret, obsInvFresh>>
       ELSE /\ Return(FALSE)
            /\ UNCHANGED <<queueVars, queueObs>>
  /\ UNCHANGED <<estop, navVars, gateVars, inventoryPending, lastSelectedBin,
                 now, gateObs, countVars>>
  /\ UNCHANGED auxVars

\* lines 299-301
TryInvRet ==
  /\ pc = "try_inv_ret"
  /\ Return(FALSE)
  /\ UNCHANGED <<estop, navVars, gateVars, inventoryPending, lastSelectedBin,
                 queueVars, now, gateObs, queueObs, countVars>>
  /\ UNCHANGED auxVars

\* lines 315-322
TryBinRet ==
  /\ pc = "try_bin_ret"
  /\ lastSelectedBin' = IF ret THEN Top.a ELSE lastSelectedBin
  /\ Return(FALSE)
  /\ UNCHANGED <<estop, navVars, gateVars, inventoryPending, queueVars, now,
                 gateObs, queueObs, countVars>>
  /\ UNCHANGED auxVars

----------------------------------------------------------------------------
(* Bin navigator *)

rest == <<estop, gateVars, inventoryPending, queueVars, now, gateObs, queueObs>>

\* one seek from every bin
SeeksFromAnyBin(bin) == 1

\* seeks of one moveOneBin: leaving bin 3 the encoder artifact is skipped
SeeksFrom(bin) == IF bin = 3 THEN 2 ELSE 1

\* the bin after bin 3 numbered 4
BinAfterUnwrapped(bin) == bin + 1

\* lines 602 and 611
BinAfter(bin) == IF bin = 3 THEN 0 ELSE bin + 1

\* bursts are counted for the moveToBin in progress only
Counted(n, k) == IF Active("mtb_ret") THEN n + k ELSE n

\* moveOneBin (lines 584-612) by outcome.  Success: every seek and the
\* offset burst (applyIndexOffset, lines 448-452) ran to the end, which
\* stepPulseChecked (lines 219-230) allows only while the latch is clear.
\* Failure: a seek guard was exceeded, or the latch was seen, set before the
\* call or by an 'e' byte during it; currentBin is not written.
MoveOneBin(ok) ==
  /\ moveOneCalls' = Counted(moveOneCalls, 1)
  /\ now' \in (IF homed THEN Later ELSE {now})
  /\ IF ~homed
       THEN /\ ~ok
            /\ UNCHANGED <<estop, currentBin, bursts>>
       ELSE \/ /\ ok
               /\ ~estop
               /\ currentBin' = BinAfter(currentBin)
               /\ bursts' = Counted(bursts, SeeksFrom(currentBin) + 1)
               /\ UNCHANGED estop
            \/ /\ ~ok
               /\ estop' \in {estop, TRUE}
               /\ \E k \in 1..(SeeksFrom(currentBin) + 1) :
                    bursts' = Counted(bursts, k)
               /\ UNCHANGED currentBin

\* moveBins (lines 614-619); frame: a = n, b = i
MoveBinsLoop ==
  /\ pc = "mbs_loop"
  /\ IF Top.b < Top.a
       THEN \E ok \in BOOLEAN :
              /\ MoveOneBin(ok)
              /\ IF ok
                   THEN /\ stack' = <<[Top EXCEPT !.b = Top.b + 1]>> \o Tail(stack)
                        /\ UNCHANGED ret
                   ELSE Return(FALSE)
       ELSE /\ Return(TRUE)
            /\ UNCHANGED <<estop, currentBin, now, countVars>>
  /\ UNCHANGED <<homed, encoderGapThresholdSteps, gateVars, inventoryPending,
                 lastSelectedBin, queueVars, gateObs, queueObs>>
  /\ UNCHANGED auxVars

\* the distance between the bins, without the wrap
StepsNeededNoWrap(targetBin, fromBin) ==
  IF targetBin >= fromBin THEN targetBin - fromBin ELSE fromBin - targetBin

\* line 631
StepsNeeded(targetBin, fromBin) == (targetBin - fromBin + 4) % 4

\* moveToBin (lines 621-640); frame: a = targetBin, b = currentBin on entry.
\* With no step to make, ok is true and no call is made.
MoveToBinEntry ==
  /\ pc = "mtb_entry"
  /\ moveOneCalls' = 0
  /\ bursts' = 0
  /\ IF ~homed \/ Top.a < 0 \/ Top.a > 3
       THEN Return(FALSE)
       ELSE IF StepsNeeded(Top.a, currentBin) = 0
         THEN /\ stack' = <<[Top EXCEPT !.pc = "mtb_ret", !.b = currentBin]>>
                          \o Tail(stack)
              /\ ret' = TRUE
         ELSE /\ stack' = <<Frame("mbs_loop", StepsNeeded(Top.a, currentBin), 0),
                            [Top EXCEPT !.pc = "mtb_ret", !.b = currentBin]>>
                          \o Tail(stack)
              /\ UNCHANGED ret
  /\ UNCHANGED <<navVars, lastSelectedBin, rest>>
  /\ UNCHANGED auxVars

\* lines 635 and 641-643: return ok
MoveToBinRet ==
  /\ pc = "mtb_ret"
  /\ moveOneCalls' = 0
  /\ bursts' = 0
  /\ Return(ret)
  /\ UNCHANGED <<navVars, lastSelectedBin, rest>>
  /\ UNCHANGED auxVars

----------------------------------------------------------------------------
(* Inventory sequencer: runInventorySequence *)

\* the sequence clearing inventoryPending before the rotation
RunInvEntryClearingPending ==
  /\ pc = "inv_entry"
  /\ IF \/ ~homed
        \/ beamStableBlocked
        \/ ~inventoryPending
        \/ lastSelectedBin < 0 \/ lastSelectedBin > 3
       THEN /\ Return(FALSE)
            /\ UNCHANGED inventoryPending
       ELSE /\ inventoryPending' = FALSE
            /\ stack' = <<Frame("mbs_loop", 2, 0),
                          Frame("inv_moved", currentBin, lastSelectedBin)>>
                        \o Tail(stack)
            /\ UNCHANGED ret
  /\ UNCHANGED <<estop, navVars, gateVars, lastSelectedBin, queueVars, now,
                 gateObs, queueObs, countVars>>
  /\ UNCHANGED auxVars

\* the sequence rotating one bin slot only
RunInvEntryOneSlot ==
  /\ pc = "inv_entry"
  /\ IF \/ ~homed
        \/ beamStableBlocked
        \/ ~inventoryPending
        \/ lastSelectedBin < 0 \/ lastSelectedBin > 3
       THEN Return(FALSE)
       ELSE /\ stack' = <<Frame("mbs_loop", 1, 0),
                          Frame("inv_moved", currentBin, lastSelectedBin)>>
                        \o Tail(stack)
            /\ UNCHANGED ret
  /\ UNCHANGED <<navVars, lastSelectedBin, countVars, rest>>
  /\ UNCHANGED auxVars

\* lines 650-671: the preconditions, then the 2-bin rotation.  The frame of
\* the sequence keeps currentBin (a) and lastSelectedBin (b) as they stood at
\* the call
RunInvEntry ==
  /\ pc = "inv_entry"
  /\ IF \/ ~homed
        \/ beamStableBlocked
        \/ ~inventoryPending
        \/ lastSelectedBin < 0 \/ lastSelectedBin > 3
       THEN Return(FALSE)
       ELSE /\ stack' = <<Frame("mbs_loop", 2, 0),
                          Frame("inv_moved", currentBin, lastSelectedBin)>>
                        \o Tail(stack)
            /\ UNCHANGED ret
  /\ UNCHANGED <<navVars, lastSelectedBin, countVars, rest>>
  /\ UNCHANGED auxVars

\* the sequence without the drain of line 700
RunInvMeasureNoDrain ==
  /\ pc = "inv_moved"
  /\ IF ~ret
       THEN /\ Return(FALSE)
            /\ UNCHANGED <<estop, now, inventoryPending>>
       ELSE \/ /\ estop' = TRUE
               /\ now' \in Later
               /\ Return(FALSE)
               /\ UNCHANGED inventoryPending
            \/ /\ ~estop
               /\ \E t \in Later : Elapsed(t, now) >= US_WINDOW_MS /\ now' = t
               /\ inventoryPending' = FALSE
               /\ Jump("inv_ret")
               /\ UNCHANGED <<estop, ret>>
  /\ UNCHANGED <<navVars, gateVars, lastSelectedBin, queueVars, gateObs,
                 queueObs, countVars>>
  /\ UNCHANGED auxVars

\* lines 671-700: readRobustDistance4sCm (lines 488-519) runs for the whole
\* window unless the latch is seen; then the classification, inventoryPending
\* is cleared and the queue drained
RunInvMeasure ==
  /\ pc = "inv_moved"
  /\ IF ~ret
       THEN /\ Return(FALSE)
            /\ UNCHANGED <<estop, now, inventoryPending>>
       ELSE \/ /\ estop' = TRUE
               /\ now' \in Later
               /\ Return(FALSE)
               /\ UNCHANGED inventoryPending
            \/ /\ ~estop
               /\ \E t \in Later : Elapsed(t, now) >= US_WINDOW_MS /\ now' = t
               /\ inventoryPending' = FALSE
               /\ Call("inv_ret", Frame("try_entry", UNKNOWN, 0))
               /\ UNCHANGED <<estop, ret>>
  /\ UNCHANGED <<navVars, gateVars, lastSelectedBin, queueVars, gateObs,
                 queueObs, countVars>>
  /\ UNCHANGED auxVars

\* line 702
RunInvRet ==
  /\ pc = "inv_ret"
  /\ Return(TRUE)
  /\ UNCHANGED <<navVars, lastSelectedBin, countVars, rest>>
  /\ UNCHANGED auxVars

----------------------------------------------------------------------------
(* Homing: homeRoutine *)

RECURSIVE Insert(_, _)
Insert(x, sorted) ==
  IF sorted = <<>> \/ x <= Head(sorted)
    THEN <<x>> \o sorted
    ELSE <<Head(sorted)>> \o Insert(x, Tail(sorted))

\* qsort with cmpLong (lines 431-437, 552): ascending order.  Element i of
\* the result is the value with fewer than i smaller elements and at least i
\* elements not greater.
SortLong(a) ==
  [i \in 1..Len(a) |->
     CHOOSE v \in {a[j] : j \in 1..Len(a)} :
       /\ Cardinality({j \in 1..Len(a) : a[j] < v}) < i
       /\ i <= Cardinality({j \in 1..Len(a) : a[j] <= v})]

\* lines 553-555
\* a threshold taken from the fifth smallest gap
GapThresholdLowerMiddle(sampled) ==
  RoundDiv(SortLong(sampled)[HOME_SAMPLE_EVENTS \div 2] * 60, 100)

GapThreshold(sampled) ==
  LET normalGap == SortLong(sampled)[(HOME_SAMPLE_EVENTS \div 2) + 1]
  IN  RoundDiv(normalGap * 60, 100)

\* the gaps[] filled by lines 544-548 when the discarded first press event
\* (line 541) was event k of the drum
GapsFrom(k) == [i \in 1..HOME_SAMPLE_EVENTS |-> GapAfter((k + i - 1) % 5)]

\* lines 561-565: some gap of the drum is short enough to end the scan
ScanEnds(threshold) == \E k \in 0..4 : GapAfter(k) < threshold
\* an entry of homeRoutine that keeps what the drum knew
HomeEntryKeepingHomed ==
  /\ estop' = FALSE
  /\ encoderGapThresholdSteps' = 0
  /\ inventoryRequested' = FALSE
  /\ binRequested' = FALSE
  /\ requestedBin' = UNKNOWN
  /\ obsBinCmds' = 0
  /\ obsInvFresh' = FALSE
  /\ obsRefusedBin' = UNKNOWN
  /\ obsRefusedBlocked' = FALSE
  /\ UNCHANGED <<homed, currentBin>>


\* lines 525-538, as a step of the caller: reset of the latch, of the
\* navigator and of the queue
HomeEntry ==
  /\ estop' = FALSE
  /\ homed' = FALSE
  /\ currentBin' = UNKNOWN
  /\ encoderGapThresholdSteps' = 0
  /\ inventoryRequested' = FALSE
  /\ binRequested' = FALSE
  /\ requestedBin' = UNKNOWN
  /\ obsBinCmds' = 0
  /\ obsInvFresh' = FALSE
  /\ obsRefusedBin' = UNKNOWN
  /\ obsRefusedBlocked' = FALSE

\* lines 540-555: the discarded seek, the HOME_SAMPLE_EVENTS sampling seeks
\* and the threshold; any of the seeks may fail, by its guard or by the latch
HomeSample ==
  /\ pc = "home_sample"
  /\ now' \in Later
  /\ \/ /\ \E k \in 0..4 :
             encoderGapThresholdSteps' = GapThreshold(GapsFrom(k))
        /\ Jump("home_scan")
        /\ UNCHANGED <<estop, ret>>
     \/ /\ estop' \in BOOLEAN
        /\ Return(FALSE)
        /\ UNCHANGED encoderGapThresholdSteps
  /\ UNCHANGED <<homed, currentBin, gateVars, inventoryPending,
                 lastSelectedBin, queueVars, gateObs, queueObs, countVars>>
  /\ UNCHANGED auxVars

\* lines 561-577: seek until a short gap, the offset burst, then BIN0
HomeScan ==
  /\ pc = "home_scan"
  /\ now' \in Later
  /\ \/ /\ ScanEnds(encoderGapThresholdSteps)
        /\ currentBin' = 0
        /\ homed' = TRUE
        /\ lastSelectedBin' = 0
        /\ Return(TRUE)
        /\ UNCHANGED estop
     \/ /\ estop' \in BOOLEAN
        /\ Return(FALSE)
        /\ UNCHANGED <<homed, currentBin, lastSelectedBin>>
  /\ UNCHANGED <<encoderGapThresholdSteps, gateVars, inventoryPending,
                 queueVars, gateObs, queueObs, countVars>>
  /\ UNCHANGED auxVars

----------------------------------------------------------------------------
(* loop(): one pass is gate update, queue drain, then at most one command *)

\* lines 844-851: the gate update, then the drain of line 851, which returns
\* at once when it has nothing to run; a drain made by the gate update itself
\* runs first
LoopTop ==
  /\ pc = "loop_top"
  /\ ~estop
  /\ UNCHANGED <<ret, estop, navVars, lastSelectedBin, queueVars, queueObs,
                 countVars>>
  /\ UpdateBeamDebounce(Soon,
       IF DrainRuns'
         THEN <<Frame("try_entry", UNKNOWN, 0), [Top EXCEPT !.pc = "loop_read"]>>
              \o Tail(stack)
         ELSE <<[Top EXCEPT !.pc = "loop_read"]>> \o Tail(stack),
       <<[Top EXCEPT !.pc = "loop_drain"]>> \o Tail(stack))
  /\ UNCHANGED auxVars

\* line 851, after a drain made by the gate update
LoopDrain ==
  /\ pc = "loop_drain"
  /\ Call("loop_read", Frame("try_entry", UNKNOWN, 0))
  /\ UNCHANGED <<ret, navVars, lastSelectedBin, countVars, rest>>
  /\ UNCHANGED auxVars

\* lines 853, 950: no complete line; bytes waiting may hold an 'e'
LoopIdle ==
  /\ pc = "loop_read"
  /\ estop' \in {estop, TRUE}
  /\ Jump("loop_top")
  /\ UNCHANGED <<ret, navVars, gateVars, inventoryPending, lastSelectedBin,
                 queueVars, now, gateObs, queueObs, countVars>>
  /\ UNCHANGED auxVars

\* lines 862-866 and doEstop (lines 709-716)
LoopCmdEstop ==
  /\ pc = "loop_read"
  /\ \E cmd \in Commands : cmd = "e"
  /\ estop' = TRUE
  /\ Jump("loop_top")
  /\ UNCHANGED <<ret, navVars, gateVars, inventoryPending, lastSelectedBin,
                 queueVars, now, gateObs, queueObs, countVars>>
  /\ UNCHANGED auxVars

\* lines 868-874 and the entry of homeRoutine
LoopCmdHome ==
  /\ pc = "loop_read"
  /\ \E cmd \in Commands : cmd = "h"
  /\ HomeEntry
  /\ Call("loop_top", Frame("home_sample", 0, 0))
  /\ UNCHANGED <<ret, gateVars, inventoryPending, lastSelectedBin, now,
                 gateObs, countVars>>
  /\ UNCHANGED auxVars

\* an 'i' that is answered without being queued
LoopCmdInventoryUnqueued ==
  /\ pc = "loop_read"
  /\ \E cmd \in Commands : cmd = "i"
  /\ IF inventoryPending /\ ~beamStableBlocked /\ ~gateLockout
       THEN /\ inventoryRequested' = FALSE
            /\ obsInvFresh' = FALSE
            /\ Call("loop_top", Frame("inv_entry", 0, 0))
       ELSE /\ UNCHANGED inventoryRequested
            /\ obsInvFresh' = TRUE
            /\ Jump("loop_top")
  /\ UNCHANGED <<ret, estop, navVars, gateVars, inventoryPending,
                 lastSelectedBin, binRequested, requestedBin, now, gateObs,
                 obsBinCmds, obsRefusedBin, obsRefusedBlocked, countVars>>
  /\ UNCHANGED auxVars

\* lines 876-897
LoopCmdInventory ==
  /\ pc = "loop_read"
  /\ \E cmd \in Commands : cmd = "i"
  /\ IF inventoryPending /\ ~beamStableBlocked /\ ~gateLockout
       THEN /\ inventoryRequested' = FALSE
            /\ obsInvFresh' = FALSE
            /\ Call("loop_top", Frame("inv_entry", 0, 0))
       ELSE /\ inventoryRequested' = TRUE
            /\ obsInvFresh' = TRUE
            /\ Jump("loop_top")
  /\ UNCHANGED <<ret, estop, navVars, gateVars, inventoryPending,
                 lastSelectedBin, binRequested, requestedBin, now, gateObs,
                 obsBinCmds, obsRefusedBin, obsRefusedBlocked, countVars>>
  /\ UNCHANGED auxVars

\* the refusal test without the test of line 910
BinRefusedLockoutOnly == gateLockout

\* the two refusal tests of lines 901 and 910
BinRefused == gateLockout \/ inventoryPending

\* a queue that keeps the payload it already holds
QueuedPayloadFirst(targetBin) ==
  IF binRequested THEN requestedBin ELSE targetBin

\* the payload the queue holds after a refused bin command (lines 903, 912)
QueuedPayload(targetBin) == targetBin

\* lines 899-922: a refused command is queued, overwriting the queued bin;
\* an admitted one starts moveToBin.  Frame: a = targetBin
LoopCmdBin ==
  /\ pc = "loop_read"
  /\ \E cmd \in Commands :
       LET targetBin == ParseBinCommand(cmd) IN
       /\ targetBin # UNKNOWN
       /\ IF BinRefused
            THEN /\ binRequested' = TRUE
                 /\ requestedBin' = QueuedPayload(targetBin)
                 /\ obsBinCmds' = IF obsBinCmds = 0 THEN 1 ELSE 2
                 /\ obsRefusedBin' = targetBin
                 /\ obsRefusedBlocked' = beamStableBlocked
                 /\ Jump("loop_top")
            ELSE /\ stack' = <<Frame("mtb_entry", targetBin, 0),
                               [Top EXCEPT !.pc = "loop_bin_ret", !.a = targetBin]>>
                             \o Tail(stack)
                 /\ UNCHANGED <<binRequested, requestedBin, obsBinCmds,
                                obsRefusedBin, obsRefusedBlocked>>
  /\ UNCHANGED <<ret, estop, navVars, gateVars, inventoryPending,
                 lastSelectedBin, inventoryRequested, now, gateObs,
                 obsInvFresh, countVars>>
  /\ UNCHANGED auxVars

\* lines 943-946: an unknown line
LoopCmdOther ==
  /\ pc = "loop_read"
  /\ \E cmd \in Commands :
       cmd \notin {"e", "h", "i"} /\ ParseBinCommand(cmd) = UNKNOWN
  /\ Jump("loop_top")
  /\ UNCHANGED <<ret, navVars, lastSelectedBin, countVars, rest>>
  /\ UNCHANGED auxVars

\* lines 922-930
LoopBinRet ==
  /\ pc = "loop_bin_ret"
  /\ IF ~ret
       THEN /\ Jump("loop_top")
            /\ UNCHANGED lastSelectedBin
            /\ UNCHANGED <<gateVars, inventoryPending, now, gateObs>>
       ELSE /\ lastSelectedBin' = Top.a
            /\ UpdateBeamDebounce(Soon,
                 <<[Top EXCEPT !.pc = "loop_bin_gate"]>> \o Tail(stack),
                 <<[Top EXCEPT !.pc = "loop_bin_gate"]>> \o Tail(stack))
  /\ UNCHANGED <<ret, estop, navVars, queueVars, queueObs, countVars>>
  /\ UNCHANGED auxVars

\* the gate locked after every bin selection, whatever the beam reads
LoopBinGateAlwaysLocks ==
  /\ pc = "loop_bin_gate"
  /\ IF TRUE
       THEN /\ gateLockout' = TRUE
            /\ gateOpenedAtMs' = 0
            /\ obsGate' = "blocked"
            /\ obsOpenAt' = 0
       ELSE UNCHANGED <<gateLockout, gateOpenedAtMs, gateObs>>
  /\ Jump("loop_top")
  /\ UNCHANGED <<ret, estop, navVars, beamStableBlocked, beamLastRawBlocked,
                 beamLastChangeMs, inventoryPending, lastSelectedBin,
                 queueVars, now, queueObs, countVars>>
  /\ UNCHANGED auxVars

\* lines 931-940
LoopBinGate ==
  /\ pc = "loop_bin_gate"
  /\ IF beamStableBlocked
       THEN /\ gateLockout' = TRUE
            /\ gateOpenedAtMs' = 0
            /\ obsGate' = "blocked"
            /\ obsOpenAt' = 0
       ELSE UNCHANGED <<gateLockout, gateOpenedAtMs, gateObs>>
  /\ Jump("loop_top")
  /\ UNCHANGED <<ret, estop, navVars, beamStableBlocked, beamLastRawBlocked,
                 beamLastChangeMs, inventoryPending, lastSelectedBin,
                 queueVars, now, queueObs, countVars>>
  /\ UNCHANGED auxVars

----------------------------------------------------------------------------
(* setup(): startupPromptAndHome, then loop() is called for ever *)

EnterLoop == stack' = <<Frame("loop_top", 0, 0)>>

\* lines 750-756: an 'e' byte ends the prompt; otherwise the gate update,
\* then the drain of line 756, which returns at once when it has nothing to
\* run
BootTop ==
  /\ pc = "boot_top"
  /\ UNCHANGED <<ret, navVars, lastSelectedBin, queueVars, queueObs, countVars>>
  /\ \/ /\ estop' = TRUE
        /\ EnterLoop
        /\ UNCHANGED <<gateVars, inventoryPending, now, gateObs>>
     \/ /\ UNCHANGED estop
        /\ UpdateBeamDebounce(Soon,
             IF DrainRuns'
               THEN <<Frame("try_entry", UNKNOWN, 0),
                      [Top EXCEPT !.pc = "boot_read"]>> \o Tail(stack)
               ELSE <<[Top EXCEPT !.pc = "boot_read"]>> \o Tail(stack),
             <<[Top EXCEPT !.pc = "boot_drain"]>> \o Tail(stack))
  /\ UNCHANGED auxVars

\* line 756, after a drain made by the gate update
BootDrain ==
  /\ pc = "boot_drain"
  /\ Call("boot_read", Frame("try_entry", UNKNOWN, 0))
  /\ UNCHANGED <<ret, navVars, lastSelectedBin, countVars, rest>>
  /\ UNCHANGED auxVars

\* lines 758, 779-784: no line, or a line that is neither 'e' nor 'h'
BootOther ==
  /\ pc = "boot_read"
  /\ \E cmd \in Commands : cmd \notin {"e", "h"}
  /\ Jump("boot_top")
  /\ UNCHANGED <<ret, navVars, lastSelectedBin, countVars, rest>>
  /\ UNCHANGED auxVars

\* lines 761-765
BootCmdEstop ==
  /\ pc = "boot_read"
  /\ \E cmd \in Commands : cmd = "e"
  /\ estop' = TRUE
  /\ EnterLoop
  /\ UNCHANGED <<ret, navVars, gateVars, inventoryPending, lastSelectedBin,
                 queueVars, now, gateObs, queueObs, countVars>>
  /\ UNCHANGED auxVars

\* lines 767-771 and the entry of homeRoutine
BootCmdHome ==
  /\ pc = "boot_read"
  /\ \E cmd \in Commands : cmd = "h"
  /\ HomeEntry
  /\ Call("boot_home_ret", Frame("home_sample", 0, 0))
  /\ UNCHANGED <<ret, gateVars, inventoryPending, lastSelectedBin, now,
                 gateObs, countVars>>
  /\ UNCHANGED auxVars

\* lines 771-776 and 838-842
BootHomeRet ==
  /\ pc = "boot_home_ret"
  /\ IF ret \/ estop THEN EnterLoop ELSE Jump("boot_top")
  /\ UNCHANGED <<ret, navVars, lastSelectedBin, countVars, rest>>
  /\ UNCHANGED auxVars

----------------------------------------------------------------------------
(* State after the globals are initialised and setup() has run to line 838 *)

\* line 820: the driver is disabled; nothing has been received, sampled or
\* measured yet
AuxIdle ==
  /\ en = FALSE
  /\ serialE = FALSE
  /\ lateStarts = 0
  /\ enables = 0
  /\ gaps = <<>>
  /\ seeks = 0
  /\ drum = 0
  /\ meds = <<>>
  /\ samples = <<>>
  /\ elapsed = 0
  /\ retCm = 0
  /\ console = <<>>

Init ==
  /\ estop = FALSE
  /\ homed = FALSE
  /\ currentBin = UNKNOWN
  /\ encoderGapThresholdSteps = 0
  /\ beamLastRawBlocked \in BOOLEAN
  /\ beamStableBlocked = beamLastRawBlocked
  /\ beamLastChangeMs = StartMs
  /\ gateLockout = beamStableBlocked
  /\ gateOpenedAtMs = 0
  /\ inventoryPending = FALSE
  /\ lastSelectedBin = UNKNOWN
  /\ inventoryRequested = FALSE
  /\ binRequested = FALSE
  /\ requestedBin = UNKNOWN
  /\ stack = <<Frame("boot_top", 0, 0)>>
  /\ ret = FALSE
  /\ now = StartMs
  /\ obsGate = IF beamStableBlocked THEN "blocked" ELSE "none"
  /\ obsOpenAt = 0
  /\ obsBinCmds = 0
  /\ obsInvFresh = FALSE
  /\ obsRefusedBin = UNKNOWN
  /\ obsRefusedBlocked = FALSE
  /\ moveOneCalls = 0
  /\ bursts = 0
  /\ AuxIdle

Next ==
  \/ TryRunQueued \/ TryInvRet \/ TryBinRet
  \/ MoveBinsLoop \/ MoveToBinEntry \/ MoveToBinRet
  \/ RunInvEntry \/ RunInvMeasure \/ RunInvRet
  \/ HomeSample \/ HomeScan
  \/ LoopTop \/ LoopDrain \/ LoopIdle \/ LoopCmdEstop \/ LoopCmdHome
  \/ LoopCmdInventory \/ LoopCmdBin \/ LoopCmdOther \/ LoopBinRet \/ LoopBinGate
  \/ BootTop \/ BootDrain \/ BootOther \/ BootCmdEstop \/ BootCmdHome
  \/ BootHomeRet

Spec == Init /\ [][Next]_vars

----------------------------------------------------------------------------
(* Distance estimation: pingDistanceCm, medianOfBlockCm,                   *)
(* readRobustDistance4sCm, and the classification of runInventorySequence. *)
(* A distance is a whole number of CmUnit-ths of a centimetre.             *)

US_PING_PERIOD_MS == 25

US_BLOCK_SIZE == 7

INVENTORY_THRESH_CM == 12

\* the undefined distance
NAN == -1

CmUnit == 100000

\* line 468: 0.0343f / 2.0f cm for each microsecond of echo
EchoCmPerUs == 1715

\* echo durations (microseconds) of a near and of a far surface
EchoNearUs == 400

EchoFarUs == 1000

\* duration (ms) of a run of pings that time out
SilenceMs == 2000

Echoes == {EchoNearUs, EchoFarUs}

\* lines 465-468, for an echo that arrived
PingDistanceCm(durationUs) == durationUs * EchoCmPerUs

\* line 489
MAX_BLOCKS == (US_WINDOW_MS \div (US_BLOCK_SIZE * US_PING_PERIOD_MS)) + 10

\* pollEstopDuringMotion (lines 212-217): the receive buffer is emptied, an
\* 'e' byte in it sets the latch
PollEstop == /\ estop' = (estop \/ serialE)
             /\ serialE' = FALSE

\* millis() - t0 after ms more milliseconds; it is only compared with
\* US_WINDOW_MS, where it stops counting
ElapsedAfter(ms) ==
  IF elapsed + ms >= US_WINDOW_MS THEN US_WINDOW_MS ELSE elapsed + ms

\* an estimate from one median only
EnoughMediansOne(mCount) == mCount >= 1

\* line 503
EnoughMedians(mCount) == mCount >= 5

\* lines 507-508
TrimCount(mCount) ==
  LET trim == RoundDiv(mCount * 20, 100)
  IN  IF trim * 2 >= mCount THEN (mCount - 1) \div 2 ELSE trim

RECURSIVE SumSeq(_)
SumSeq(a) == IF a = <<>> THEN 0 ELSE Head(a) + SumSeq(Tail(a))

\* lines 503-518 on the sorted meds[]: the mean of the medians left after
\* trim of them are dropped at each end, in whole units
RobustDistance(sortedMeds) ==
  LET mCount == Len(sortedMeds)
      trim   == TrimCount(mCount)
      kept   == SubSeq(sortedMeds, trim + 1, mCount - trim)
  IN  IF ~EnoughMedians(mCount) THEN NAN
      ELSE IF Len(kept) <= 0 THEN NAN
      ELSE SumSeq(kept) \div Len(kept)

\* a classification by the comparison alone
IsHIUnchecked(d) == d < INVENTORY_THRESH_CM * CmUnit

\* lines 677-685
IsHI(d) == IF d = NAN THEN FALSE ELSE d < INVENTORY_THRESH_CM * CmUnit

HiLo(isHI) == IF isHI THEN "HI" ELSE "LO"

\* lines 681 and 686: the status line
StatusLine(isHI) == <<"status", HiLo(isHI)>>

\* printInventoryLogLine (lines 271-285): no line for a bin outside 0..3
LogLines(bin, isHI) ==
  IF bin < 0 \/ bin > 3 THEN <<>> ELSE << <<"log", bin, HiLo(isHI)>> >>

measRest == <<navVars, gateVars, lastSelectedBin, queueVars, now, gateObs,
              queueObs, countVars, en, lateStarts, enables, homingVars>>

\* an 'e' byte arrives on the serial line during the measurement
MeasEByte ==
  /\ pc \in {"rd_loop", "mb_loop", "mb_ping", "rd_block_ret"}
  /\ ~serialE
  /\ ~estop
  /\ serialE' = TRUE
  /\ UNCHANGED <<estop, inventoryPending, stack, ret, measVars, measRest>>

\* line 674: readRobustDistance4sCm is called; lines 490-493
InvMeasure ==
  /\ pc = "inv_measure"
  /\ Call("inv_classify", Frame("rd_loop", 0, 0))
  /\ meds' = <<>>
  /\ samples' = <<>>
  /\ elapsed' = 0
  /\ retCm' = 0
  /\ UNCHANGED <<estop, serialE, inventoryPending, ret, console, measRest>>

\* lines 494-498: the window test, the poll and the call of medianOfBlockCm
RdLoop ==
  /\ pc = "rd_loop"
  /\ IF elapsed < US_WINDOW_MS
       THEN /\ PollEstop
            /\ IF estop'
                 THEN /\ retCm' = NAN
                      /\ stack' = Tail(stack)
                      /\ UNCHANGED samples
                 ELSE /\ Call("rd_block_ret", Frame("mb_loop", 0, 0))
                      /\ samples' = <<>>
                      /\ UNCHANGED retCm
       ELSE /\ Jump("rd_finish")
            /\ UNCHANGED <<estop, serialE, samples, retCm>>
  /\ UNCHANGED <<inventoryPending, ret, meds, elapsed, console, measRest>>

\* medianOfBlockCm (lines 471-486): the test of count, the poll of the latch
\* and, with s[] full, its median.  s[] is kept sorted, as line 484 leaves
\* it, and is empty again once the function has returned.
MbLoop ==
  /\ pc = "mb_loop"
  /\ IF Len(samples) < US_BLOCK_SIZE
       THEN /\ PollEstop
            /\ IF estop'
                 THEN /\ retCm' = NAN
                      /\ samples' = <<>>
                      /\ stack' = Tail(stack)
                 ELSE /\ Jump("mb_ping")
                      /\ UNCHANGED <<retCm, samples>>
       ELSE /\ retCm' = samples[(US_BLOCK_SIZE \div 2) + 1]
            /\ samples' = <<>>
            /\ stack' = Tail(stack)
            /\ UNCHANGED <<estop, serialE>>
  /\ UNCHANGED <<inventoryPending, ret, meds, elapsed, console, measRest>>

\* lines 478-480: one ping whose echo arrived is stored; a ping that timed
\* out (pingDistanceCm returns NAN, line 466) stores nothing and count stays
\* as it is.  The silent step stands for a run of such pings.
MbPing ==
  /\ pc = "mb_ping"
  /\ \/ \E durationUs \in Echoes :
          /\ samples' = Insert(PingDistanceCm(durationUs), samples)
          /\ elapsed' = ElapsedAfter(US_PING_PERIOD_MS)
     \/ /\ elapsed' = ElapsedAfter(SilenceMs)
        /\ UNCHANGED samples
  /\ Jump("mb_loop")
  /\ UNCHANGED <<estop, serialE, inventoryPending, ret, meds, retCm, console,
                 measRest>>

\* lines 499-500: a defined median is stored; meds[] is kept sorted, as line
\* 505 leaves it
RdBlockRet ==
  /\ pc = "rd_block_ret"
  /\ meds' = IF retCm # NAN THEN Insert(retCm, meds) ELSE meds
  /\ IF Len(meds') >= MAX_BLOCKS THEN Jump("rd_finish") ELSE Jump("rd_loop")
  /\ UNCHANGED <<estop, serialE, inventoryPending, ret, samples, elapsed,
                 retCm, console, measRest>>

\* lines 503-518
RdFinish ==
  /\ pc = "rd_finish"
  /\ retCm' = RobustDistance(meds)
  /\ stack' = Tail(stack)
  /\ UNCHANGED <<estop, serialE, inventoryPending, ret, meds, samples,
                 elapsed, console, measRest>>

\* the log line tagged with the bin the carousel has rotated to
InvClassifyTaggingCurrentBin ==
  /\ pc = "inv_classify"
  /\ IF estop
       THEN /\ Jump("inv_failed")
            /\ ret' = FALSE
            /\ UNCHANGED <<inventoryPending, console>>
       ELSE /\ console' = console \o <<StatusLine(IsHI(retCm))>>
                                  \o LogLines(currentBin, IsHI(retCm))
            /\ inventoryPending' = FALSE
            /\ Jump("inv_done")
            /\ ret' = TRUE
  /\ UNCHANGED <<estop, serialE, meds, samples, elapsed, retCm, measRest>>

\* lines 675-702: with the latch set, failure; otherwise the status line,
\* the log line and the end of INVENTORY_PENDING (the queue is empty here,
\* so the drain of line 700 returns at once)
InvClassify ==
  /\ pc = "inv_classify"
  /\ IF estop
       THEN /\ Jump("inv_failed")
            /\ ret' = FALSE
            /\ UNCHANGED <<inventoryPending, console>>
       ELSE /\ console' = console \o <<StatusLine(IsHI(retCm))>>
                                  \o LogLines(lastSelectedBin, IsHI(retCm))
            /\ inventoryPending' = FALSE
            /\ Jump("inv_done")
            /\ ret' = TRUE
  /\ UNCHANGED <<estop, serialE, meds, samples, elapsed, retCm, measRest>>

\* runInventorySequence has passed its tests and rotated the drum (line 671)
MeasureInit ==
  /\ estop = FALSE
  /\ homed = TRUE
  /\ lastSelectedBin \in Bins
  /\ currentBin = BinAfter(BinAfter(lastSelectedBin))
  /\ encoderGapThresholdSteps = GapThreshold(GapsFrom(0))
  /\ beamLastRawBlocked = FALSE
  /\ beamStableBlocked = FALSE
  /\ beamLastChangeMs = StartMs
  /\ gateLockout = FALSE
  /\ gateOpenedAtMs = 0
  /\ inventoryPending = TRUE
  /\ inventoryRequested = FALSE
  /\ binRequested = FALSE
  /\ requestedBin = UNKNOWN
  /\ stack = <<Frame("inv_measure", 0, 0)>>
  /\ ret = TRUE
  /\ now = StartMs
  /\ obsGate = "ready"
  /\ obsOpenAt = 0
  /\ obsBinCmds = 0
  /\ obsInvFresh = FALSE
  /\ obsRefusedBin = UNKNOWN
  /\ obsRefusedBlocked = FALSE
  /\ moveOneCalls = 0
  /\ bursts = 0
  /\ AuxIdle

MeasureNext ==
  \/ MeasEByte \/ InvMeasure \/ RdLoop \/ MbLoop \/ MbPing \/ RdBlockRet
  \/ RdFinish \/ InvClassify

MeasureSpec == MeasureInit /\ [][MeasureNext]_vars

\* the sketch runs on: a statement that can execute does execute.  Nothing
\* is assumed of the sensor (an echo may never arrive) nor of the operator
\* (an 'e' byte may never be sent).
MeasureStep ==
  \/ InvMeasure \/ RdLoop \/ MbLoop \/ MbPing \/ RdBlockRet \/ RdFinish
  \/ InvClassify

MeasureLiveSpec == MeasureSpec /\ WF_vars(MeasureStep)

----------------------------------------------------------------------------
(* Homing and navigation seek by seek.  homeRoutine, moveToBin, moveOneBin *)
(* and runInventorySequence are called one after the other, in whatever    *)
(* state the calls before left; a seek or an offset burst is one step,     *)
(* modelled by its outcome.                                                *)

\* the steps a seek may count beyond the distance between two press events
MaxJitter == 1

navRest == <<gateVars, queueVars, now, gateObs, queueObs, countVars, en,
             serialE, lateStarts, measVars>>

\* seekNextPressEventCCW (lines 384-428) by outcome.  The driver is enabled
\* at line 386 whatever follows.  Success takes at least one pulse, so the
\* latch is clear from beginning to end, and leaves the drum at the next
\* press event; failure is the latch, set before or by an 'e' byte during
\* the seek, or a guard exceeded.
SeekOutcome(ok) ==
  /\ enables' = enables + 1
  /\ IF ok
       THEN /\ ~estop
            /\ drum' = NextEvent(drum)
            /\ UNCHANGED estop
       ELSE /\ estop' \in {estop, TRUE}
            /\ drum' \in {drum, NextEvent(drum)}

\* stepsMoved of a successful seek that started at press event k
StepsMoved(k, jitter) == GapAfter(k) + jitter

\* applyIndexOffset (lines 448-452) by outcome: stepCCW (lines 367-378)
\* fails only on the latch
OffsetOutcome(ok) ==
  /\ enables' = enables + 1
  /\ IF ok THEN ~estop /\ UNCHANGED estop ELSE estop' = TRUE

\* line 541: the first press event is discarded
NavHomeDiscard ==
  /\ pc = "n_home_discard"
  /\ \E ok \in BOOLEAN :
       /\ SeekOutcome(ok)
       /\ seeks' = IF ok THEN seeks + 1 ELSE seeks
       /\ IF ok THEN Jump("n_home_gaps") /\ UNCHANGED ret ELSE Return(FALSE)
  /\ UNCHANGED <<navVars, inventoryPending, lastSelectedBin, gaps, navRest>>

\* lines 544-548: one recorded gap.  gaps[] is read only through the sorted
\* copy of line 552, and is held here in that order.
NavHomeGap ==
  /\ pc = "n_home_gaps"
  /\ Len(gaps) < HOME_SAMPLE_EVENTS
  /\ \E ok \in BOOLEAN :
       /\ SeekOutcome(ok)
       /\ seeks' = IF ok THEN seeks + 1 ELSE seeks
       /\ IF ok
            THEN /\ \E jitter \in 0..MaxJitter :
                      gaps' = SortLong(Append(gaps, StepsMoved(drum, jitter)))
                 /\ UNCHANGED <<stack, ret>>
            ELSE /\ gaps' = <<>>
                 /\ Return(FALSE)
  /\ UNCHANGED <<navVars, inventoryPending, lastSelectedBin, navRest>>

\* lines 550-555; gaps[] is not read again
NavHomeThreshold ==
  /\ pc = "n_home_gaps"
  /\ Len(gaps) = HOME_SAMPLE_EVENTS
  /\ encoderGapThresholdSteps' = GapThreshold(gaps)
  /\ gaps' = <<>>
  /\ Jump("n_home_scan")
  /\ UNCHANGED <<estop, homed, currentBin, inventoryPending, lastSelectedBin,
                 ret, seeks, drum, enables, navRest>>

\* a test that also takes a gap equal to the threshold for the short one
ShortGapOrEqual(g, threshold) == g <= threshold

\* line 565
ShortGap(g, threshold) == g < threshold

\* lines 561-565: one seek of the scan; frame: a = g, the gap of the last
\* seek
NavHomeScan ==
  /\ pc = "n_home_scan"
  /\ \E ok \in BOOLEAN :
       /\ SeekOutcome(ok)
       /\ seeks' = IF ok THEN seeks + 1 ELSE seeks
       /\ IF ok
            THEN /\ \E jitter \in 0..MaxJitter :
                      LET g == StepsMoved(drum, jitter) IN
                      stack' = <<Frame(IF ShortGap(g, encoderGapThresholdSteps)
                                         THEN "n_home_offset"
                                         ELSE "n_home_scan", g, 0)>>
                               \o Tail(stack)
                 /\ UNCHANGED ret
            ELSE Return(FALSE)
  /\ UNCHANGED <<navVars, inventoryPending, lastSelectedBin, gaps, navRest>>

\* lines 569-575
NavHomeOffset ==
  /\ pc = "n_home_offset"
  /\ \E ok \in BOOLEAN :
       /\ OffsetOutcome(ok)
       /\ IF ok
            THEN /\ currentBin' = 0
                 /\ homed' = TRUE
                 /\ lastSelectedBin' = 0
                 /\ Return(TRUE)
            ELSE /\ Return(FALSE)
                 /\ UNCHANGED <<currentBin, homed, lastSelectedBin>>
  /\ UNCHANGED <<encoderGapThresholdSteps, inventoryPending, gaps, seeks,
                 drum, navRest>>

\* moveOneBin, lines 584-592
NavMoveOneBin ==
  /\ pc = "n_mob_entry"
  /\ IF ~homed
       THEN Return(FALSE)
       ELSE /\ stack' = <<Frame("n_mob_seek", SeeksFrom(currentBin), 0)>>
                        \o Tail(stack)
            /\ UNCHANGED ret
  /\ UNCHANGED <<estop, navVars, inventoryPending, lastSelectedBin,
                 homingVars, enables, navRest>>

\* lines 593-596 and 606: a seek; frame: a = seeks still to make
NavMoveOneBinSeek ==
  /\ pc = "n_mob_seek"
  /\ \E ok \in BOOLEAN :
       /\ SeekOutcome(ok)
       /\ IF ok
            THEN /\ stack' = <<Frame(IF Top.a = 1 THEN "n_mob_offset"
                                                  ELSE "n_mob_seek",
                                     Top.a - 1, 0)>> \o Tail(stack)
                 /\ UNCHANGED ret
            ELSE Return(FALSE)
  /\ UNCHANGED <<navVars, inventoryPending, lastSelectedBin, gaps, seeks, navRest>>

\* a failed offset burst that marks the position unknown
NavMoveOneBinOffsetMarkingUnknown ==
  /\ pc = "n_mob_offset"
  /\ \E ok \in BOOLEAN :
       /\ OffsetOutcome(ok)
       /\ IF ok
            THEN /\ currentBin' = BinAfter(currentBin)
                 /\ Return(TRUE)
                 /\ UNCHANGED homed
            ELSE /\ currentBin' = UNKNOWN
                 /\ homed' = FALSE
                 /\ Return(FALSE)
  /\ UNCHANGED <<encoderGapThresholdSteps, inventoryPending,
                 lastSelectedBin, homingVars, navRest>>

\* lines 599-602 and 608-611
NavMoveOneBinOffset ==
  /\ pc = "n_mob_offset"
  /\ \E ok \in BOOLEAN :
       /\ OffsetOutcome(ok)
       /\ IF ok
            THEN currentBin' = BinAfter(currentBin) /\ Return(TRUE)
            ELSE UNCHANGED currentBin /\ Return(FALSE)
  /\ UNCHANGED <<homed, encoderGapThresholdSteps, inventoryPending,
                 lastSelectedBin, homingVars, navRest>>

\* moveBins (lines 614-619); frame: a = n, b = i
NavMoveBins ==
  /\ pc = "n_mbs_loop"
  /\ IF Top.b < Top.a
       THEN Call("n_mbs_ret", Frame("n_mob_entry", 0, 0)) /\ UNCHANGED ret
       ELSE Return(TRUE)
  /\ UNCHANGED <<estop, navVars, inventoryPending, lastSelectedBin,
                 homingVars, enables, navRest>>

\* line 616
NavMoveBinsRet ==
  /\ pc = "n_mbs_ret"
  /\ IF ret
       THEN /\ stack' = <<Frame("n_mbs_loop", Top.a, Top.b + 1)>> \o Tail(stack)
            /\ UNCHANGED ret
       ELSE Return(FALSE)
  /\ UNCHANGED <<estop, navVars, inventoryPending, lastSelectedBin,
                 homingVars, enables, navRest>>

\* moveToBin (lines 621-642); frame: a = targetBin
NavMoveToBin ==
  /\ pc = "n_mtb_entry"
  /\ IF ~homed \/ Top.a < 0 \/ Top.a > 3
       THEN Return(FALSE)
       ELSE IF StepsNeeded(Top.a, currentBin) = 0
         THEN Return(TRUE)
         ELSE /\ Call("n_mtb_ret",
                      Frame("n_mbs_loop", StepsNeeded(Top.a, currentBin), 0))
              /\ UNCHANGED ret
  /\ UNCHANGED <<estop, navVars, inventoryPending, lastSelectedBin,
                 homingVars, enables, navRest>>

\* lines 642-643
NavMoveToBinRet ==
  /\ pc = "n_mtb_ret"
  /\ Return(ret)
  /\ UNCHANGED <<estop, navVars, inventoryPending, lastSelectedBin,
                 homingVars, enables, navRest>>

\* an inventory sequence that rotates without its tests
NavRunInventoryUnchecked ==
  /\ pc = "n_inv_entry"
  /\ Call("n_inv_moved", Frame("n_mbs_loop", 2, 0))
  /\ UNCHANGED <<estop, ret, navVars, inventoryPending, lastSelectedBin,
                 homingVars, enables, navRest>>

\* runInventorySequence, lines 650-671
NavRunInventory ==
  /\ pc = "n_inv_entry"
  /\ IF \/ ~homed
        \/ beamStableBlocked
        \/ ~inventoryPending
        \/ lastSelectedBin < 0
        \/ lastSelectedBin > 3
       THEN Return(FALSE)
       ELSE Call("n_inv_moved", Frame("n_mbs_loop", 2, 0)) /\ UNCHANGED ret
  /\ UNCHANGED <<estop, navVars, inventoryPending, lastSelectedBin,
                 homingVars, enables, navRest>>

\* lines 671-702, the measurement by its outcome: the latch seen during it,
\* or the classification and the end of INVENTORY_PENDING (the queue is
\* empty here)
NavRunInventoryMoved ==
  /\ pc = "n_inv_moved"
  /\ IF ~ret
       THEN /\ Return(FALSE)
            /\ UNCHANGED <<estop, inventoryPending>>
       ELSE /\ estop' \in {estop, TRUE}
            /\ inventoryPending' = (inventoryPending /\ estop')
            /\ Return(~estop')
  /\ UNCHANGED <<navVars, lastSelectedBin, homingVars, enables, navRest>>

\* the calls: homeRoutine (lines 525-538 with it), moveToBin with any
\* argument, runInventorySequence, moveOneBin.  Caller's frame: a = 0..3 for
\* the function called, b = 1 when the drum was homed at the call.
NavCall ==
  /\ pc = "n_idle"
  /\ LET caller == Frame("n_ret", Top.a, IF homed THEN 1 ELSE 0) IN
     \/ /\ HomeEntry
        /\ stack' = <<Frame("n_home_discard", 0, 0), [caller EXCEPT !.a = 0]>>
        /\ seeks' = 0
        /\ UNCHANGED <<inventoryPending, lastSelectedBin>>
     \/ /\ \E targetBin \in -1..4 :
             stack' = <<Frame("n_mtb_entry", targetBin, 0),
                        [caller EXCEPT !.a = 1]>>
        /\ UNCHANGED <<estop, navVars, inventoryPending, lastSelectedBin,
                       queueVars, queueObs, seeks>>
     \/ /\ stack' = <<Frame("n_inv_entry", 0, 0), [caller EXCEPT !.a = 2]>>
        /\ UNCHANGED <<estop, navVars, inventoryPending, lastSelectedBin,
                       queueVars, queueObs, seeks>>
     \/ /\ stack' = <<Frame("n_mob_entry", 0, 0), [caller EXCEPT !.a = 3]>>
        /\ UNCHANGED <<estop, navVars, inventoryPending, lastSelectedBin,
                       queueVars, queueObs, seeks>>
  /\ enables' = 0
  /\ gaps' = <<>>
  /\ UNCHANGED <<ret, gateVars, now, gateObs, countVars, drum, en, serialE,
                 lateStarts, measVars>>

\* the call has returned; a bin command that moved the drum records its
\* bin (line 925), and the beam may have changed before the next call
NavRet ==
  /\ pc = "n_ret"
  /\ Jump("n_idle")
  /\ lastSelectedBin' = IF Top.a = 1 /\ ret THEN currentBin ELSE lastSelectedBin
  /\ inventoryPending' \in {inventoryPending, TRUE}
  /\ UNCHANGED <<estop, ret, navVars, homingVars, enables, navRest>>

\* after setup(): not homed, the beam either way
NavInit ==
  /\ estop = FALSE
  /\ homed = FALSE
  /\ currentBin = UNKNOWN
  /\ encoderGapThresholdSteps = 0
  /\ beamLastRawBlocked \in BOOLEAN
  /\ beamStableBlocked = beamLastRawBlocked
  /\ beamLastChangeMs = StartMs
  /\ gateLockout = beamStableBlocked
  /\ gateOpenedAtMs = 0
  /\ inventoryPending = FALSE
  /\ lastSelectedBin = UNKNOWN
  /\ inventoryRequested = FALSE
  /\ binRequested = FALSE
  /\ requestedBin = UNKNOWN
  /\ stack = <<Frame("n_idle", 0, 0)>>
  /\ ret = FALSE
  /\ now = StartMs
  /\ obsGate = IF beamStableBlocked THEN "blocked" ELSE "none"
  /\ obsOpenAt = 0
  /\ obsBinCmds = 0
  /\ obsInvFresh = FALSE
  /\ obsRefusedBin = UNKNOWN
  /\ obsRefusedBlocked = FALSE
  /\ moveOneCalls = 0
  /\ bursts = 0
  /\ en = FALSE
  /\ serialE = FALSE
  /\ lateStarts = 0
  /\ enables = 0
  /\ gaps = <<>>
  /\ seeks = 0
  /\ drum \in 0..4
  /\ meds = <<>>
  /\ samples = <<>>
  /\ elapsed = 0
  /\ retCm = 0
  /\ console = <<>>

NavNext ==
  \/ NavCall \/ NavRet
  \/ NavHomeDiscard \/ NavHomeGap \/ NavHomeThreshold \/ NavHomeScan
  \/ NavHomeOffset
  \/ NavMoveOneBin \/ NavMoveOneBinSeek \/ NavMoveOneBinOffset
  \/ NavMoveBins \/ NavMoveBinsRet \/ NavMoveToBin \/ NavMoveToBinRet
  \/ NavRunInventory \/ NavRunInventoryMoved

NavSpec == NavInit /\ [][NavNext]_vars

----------------------------------------------------------------------------
(* Bursts pulse by pulse: stepPulseChecked, stepCCW and                    *)
(* seekNextPressEventCCW with the driver enable line and the 'e' byte that *)
(* may arrive on the serial port at any moment.  The index switch is the   *)
(* environment's: each reading of it may go either way.                    *)

MAX_STEPS_TO_FIND_INDEX == STEPS_PER_REV * 3
POST_HIT_ESCAPE_STEPS == 30
\* degToSteps(INDEX_TO_STOP_DEG + TRIM_DEG)
OffsetSteps == 58

pulseRest == <<navVars, gateVars, inventoryPending, lastSelectedBin,
               queueVars, now, gateObs, queueObs, countVars, enables,
               homingVars, measVars>>

\* an enable line that is driven active whatever is asked
EnableDriverStuck(on) == en' = TRUE

EnableDriver(on) == en' = on

\* an 'e' arrives on the serial port
PulseEByte ==
  /\ ~serialE
  /\ serialE' = TRUE
  /\ UNCHANGED <<estop, stack, ret, en, lateStarts, pulseRest>>

\* a stepPulseChecked that pulses without the test of line 221
StepPulseStartUntested ==
  /\ pc = "spc_entry"
  /\ PollEstop
  /\ Jump("spc_pulse")
  /\ lateStarts' = lateStarts + (IF serialE \/ estop THEN 1 ELSE 0)
  /\ UNCHANGED <<ret, en, pulseRest>>

\* stepPulseChecked, lines 220-223: the poll, the test, the rising edge.
\* lateStarts counts the pulses begun although an 'e' had arrived or the
\* latch was set when the function was called.
StepPulseStart ==
  /\ pc = "spc_entry"
  /\ PollEstop
  /\ IF estop'
       THEN Return(FALSE) /\ UNCHANGED lateStarts
       ELSE /\ Jump("spc_pulse")
            /\ lateStarts' = lateStarts + (IF serialE \/ estop THEN 1 ELSE 0)
            /\ UNCHANGED ret
  /\ UNCHANGED <<en, pulseRest>>

\* lines 224-229: the pulse ends, the second poll, the result
StepPulseEnd ==
  /\ pc = "spc_pulse"
  /\ PollEstop
  /\ Return(~estop')
  /\ UNCHANGED <<en, lateStarts, pulseRest>>

\* stepCCW, lines 368-370; frame: a = n, b = i
StepCCWEntry ==
  /\ pc = "sc_entry"
  /\ EnableDriver(TRUE)
  /\ Jump("sc_loop")
  /\ UNCHANGED <<estop, serialE, ret, lateStarts, pulseRest>>

\* lines 372-377
StepCCWLoop ==
  /\ pc = "sc_loop"
  /\ IF Top.b < Top.a
       THEN /\ Call("sc_ret", Frame("spc_entry", 0, 0))
            /\ UNCHANGED <<ret, en>>
       ELSE /\ EnableDriver(FALSE)
            /\ Return(TRUE)
  /\ UNCHANGED <<estop, serialE, lateStarts, pulseRest>>

\* line 373
StepCCWPulseRet ==
  /\ pc = "sc_ret"
  /\ IF ~ret
       THEN /\ EnableDriver(FALSE)
            /\ Return(FALSE)
       ELSE /\ stack' = <<Frame("sc_loop", Top.a, Top.b + 1)>> \o Tail(stack)
            /\ UNCHANGED <<ret, en>>
  /\ UNCHANGED <<estop, serialE, lateStarts, pulseRest>>

\* seekNextPressEventCCW, lines 385-390.  Frame: a = the loop (1 release
\* before the search, 2 search, 3 escape, 4 release after the press),
\* b = guard, i or relGuard
SeekEntry ==
  /\ pc = "sk_entry"
  /\ EnableDriver(TRUE)
  /\ stack' = <<Frame("sk_loop", 1, 0)>> \o Tail(stack)
  /\ UNCHANGED <<estop, serialE, ret, lateStarts, pulseRest>>

\* the head of the loops at lines 392, 401, 412 and 418, and the successful
\* end of lines 424-425
SeekLoop ==
  /\ pc = "sk_loop"
  /\ \E confirmReleased \in BOOLEAN :
       CASE Top.a = 1 /\ confirmReleased ->
              /\ stack' = <<Frame("sk_loop", 2, 0)>> \o Tail(stack)
              /\ UNCHANGED <<ret, en>>
         [] Top.a = 3 /\ Top.b >= POST_HIT_ESCAPE_STEPS ->
              /\ stack' = <<Frame("sk_loop", 4, 0)>> \o Tail(stack)
              /\ UNCHANGED <<ret, en>>
         [] Top.a = 4 /\ confirmReleased ->
              /\ EnableDriver(FALSE)
              /\ Return(TRUE)
         [] OTHER ->
              /\ Call("sk_ret", Frame("spc_entry", 0, 0))
              /\ UNCHANGED <<ret, en>>
  /\ UNCHANGED <<estop, serialE, lateStarts, pulseRest>>

\* after stepPulseChecked: lines 393-395, 405-411, 413-414 and 419-421
SeekPulseRet ==
  /\ pc = "sk_ret"
  /\ IF \/ ~ret
        \/ Top.a # 3 /\ Top.b + 1 > MAX_STEPS_TO_FIND_INDEX
       THEN /\ EnableDriver(FALSE)
            /\ Return(FALSE)
       ELSE /\ \E confirmPressed \in BOOLEAN :
                 stack' = <<IF Top.a = 2 /\ confirmPressed
                              THEN Frame("sk_loop", 3, 0)
                              ELSE Frame("sk_loop", Top.a, Top.b + 1)>>
                          \o Tail(stack)
            /\ UNCHANGED <<ret, en>>
  /\ UNCHANGED <<estop, serialE, lateStarts, pulseRest>>

\* the command loop calls a seek or an offset burst (lines 449-450)
PulseCall ==
  /\ pc = "p_idle"
  /\ \/ Call("p_ret", Frame("sk_entry", 0, 0))
     \/ Call("p_ret", Frame("sc_entry", OffsetSteps, 0))
  /\ UNCHANGED <<estop, serialE, ret, en, lateStarts, pulseRest>>

\* the burst has returned: back to the command loop, or on to the
\* ultrasonic measurement of line 674
PulseRet ==
  /\ pc = "p_ret"
  /\ \/ Jump("p_idle")
     \/ ret /\ Jump("p_measure")
  /\ UNCHANGED <<estop, serialE, ret, en, lateStarts, pulseRest>>

\* line 674 by its outcome: the measurement polls the serial port
PulseMeasure ==
  /\ pc = "p_measure"
  /\ PollEstop
  /\ Jump("p_idle")
  /\ UNCHANGED <<ret, en, lateStarts, pulseRest>>

\* driver disabled (line 820), the drum just homed, command loop
PulseInit ==
  /\ estop = FALSE
  /\ homed = TRUE
  /\ currentBin = 0
  /\ encoderGapThresholdSteps = GapThreshold([i \in 1..HOME_SAMPLE_EVENTS |->
                                                STEPS_PER_REV \div 4])
  /\ beamLastRawBlocked \in BOOLEAN
  /\ beamStableBlocked = beamLastRawBlocked
  /\ beamLastChangeMs = StartMs
  /\ gateLockout = beamStableBlocked
  /\ gateOpenedAtMs = 0
  /\ inventoryPending = FALSE
  /\ lastSelectedBin = currentBin
  /\ inventoryRequested = FALSE
  /\ binRequested = FALSE
  /\ requestedBin = UNKNOWN
  /\ stack = <<Frame("p_idle", 0, 0)>>
  /\ ret = FALSE
  /\ now = StartMs
  /\ obsGate = IF beamStableBlocked THEN "blocked" ELSE "none"
  /\ obsOpenAt = 0
  /\ obsBinCmds = 0
  /\ obsInvFresh = FALSE
  /\ obsRefusedBin = UNKNOWN
  /\ obsRefusedBlocked = FALSE
  /\ moveOneCalls = 0
  /\ bursts = 0
  /\ AuxIdle

PulseNext ==
  \/ PulseEByte \/ StepPulseStart \/ StepPulseEnd
  \/ StepCCWEntry \/ StepCCWLoop \/ StepCCWPulseRet
  \/ SeekEntry \/ SeekLoop \/ SeekPulseRet
  \/ PulseCall \/ PulseRet \/ PulseMeasure

PulseSpec == PulseInit /\ [][PulseNext]_vars

----------------------------------------------------------------------------
(* The sketch with the quit command (src/unnamed/part_000): no deferred    *)
(* queue, homing only at the startup prompt.  A pass of loop() is two      *)
(* steps, the poll with the gate update and the handling of the line read; *)
(* moves, homing and the inventory sequence are modelled by their outcome. *)

\* the lines a host may send; "" stands for no complete line or an empty
\* one, "x" for any other text
QLines == Commands \cup {"", "quit"}

quitRest == <<queueVars, gateObs, queueObs, countVars, pulseVars, homingVars,
              meds, samples, elapsed, retCm>>

\* updateBeamDebounce of this sketch, called with gateLockout, gateOpenedAtMs
\* and inventoryPending as the caller left them
QUpdateBeamDebounce(lockoutIn, openedAtIn, pendingIn) ==
  \E raw \in BOOLEAN, t \in Later :
       LET lastChange == IF raw # beamLastRawBlocked THEN t ELSE beamLastChangeMs
           accepted   == Debounced(t, lastChange) /\ raw # beamStableBlocked
           toBlocked  == accepted /\ raw
           toOpen     == accepted /\ ~raw
           stable     == IF accepted THEN raw ELSE beamStableBlocked
           lockout    == toBlocked \/ lockoutIn
           openedAt   == IF toBlocked THEN 0
                         ELSE IF toOpen THEN t ELSE openedAtIn
           expired    == ArmExpired(t, lockout, stable, openedAt)
       IN  /\ now' = t
           /\ beamLastRawBlocked' = raw
           /\ beamLastChangeMs' = lastChange
           /\ beamStableBlocked' = stable
           /\ gateLockout' = IF expired THEN FALSE ELSE lockout
           /\ gateOpenedAtMs' = IF expired THEN 0 ELSE openedAt
           /\ inventoryPending' = IF expired THEN TRUE ELSE pendingIn

\* moveBins(n) by its outcome: n bins further, or stopped on the way by the
\* latch or by a guard
QMoveBins(n, ok) ==
  IF ok
    THEN /\ currentBin' = (currentBin + n) % 4
         /\ UNCHANGED estop
    ELSE /\ \E k \in 0..(n - 1) : currentBin' = (currentBin + k) % 4
         /\ estop' \in {estop, TRUE}

\* homeRoutine by its outcome
QHomeRoutine(ok) ==
  IF ok
    THEN /\ estop' = FALSE
         /\ homed' = TRUE
         /\ currentBin' = 0
         /\ lastSelectedBin' = 0
         /\ encoderGapThresholdSteps' =
              GapThreshold([i \in 1..HOME_SAMPLE_EVENTS |-> STEPS_PER_REV \div 4])
    ELSE /\ estop' \in BOOLEAN
         /\ homed' = FALSE
         /\ currentBin' = UNKNOWN
         /\ encoderGapThresholdSteps' \in
              {0, GapThreshold([i \in 1..HOME_SAMPLE_EVENTS |-> STEPS_PER_REV \div 4])}
         /\ UNCHANGED lastSelectedBin

\* loop(), the poll, the latch test, the gate update and the line read;
\* frame: a = the line
QLoopTop ==
  /\ pc = "q_loop"
  /\ \E eByte \in BOOLEAN :
       /\ estop' = (estop \/ eByte)
       /\ IF estop'
            THEN UNCHANGED <<gateVars, now, inventoryPending, stack>>
            ELSE /\ QUpdateBeamDebounce(gateLockout, gateOpenedAtMs,
                                        inventoryPending)
                 /\ \E l \in QLines : stack' = <<Frame("q_read", l, 0)>>
  /\ console' = <<>>
  /\ UNCHANGED <<navVars, lastSelectedBin, ret, quitRest>>

\* no complete line, or an empty one
QCmdNone ==
  /\ pc = "q_read"
  /\ Top.a = ""
  /\ stack' = <<Frame("q_loop", "", 0)>>
  /\ UNCHANGED <<estop, navVars, gateVars, now, inventoryPending,
                 lastSelectedBin, ret, console, quitRest>>

\* "e": doEstop
QCmdEstop ==
  /\ pc = "q_read"
  /\ Top.a = "e"
  /\ estop' = TRUE
  /\ stack' = <<Frame("q_loop", "", 0)>>
  /\ UNCHANGED <<navVars, gateVars, now, inventoryPending, lastSelectedBin,
                 ret, console, quitRest>>

\* a quit that leaves the selection and the pending inventory as they are
QCmdQuitKeepingSelection ==
  /\ pc = "q_read"
  /\ Top.a = "quit"
  /\ homed' = FALSE
  /\ currentBin' = UNKNOWN
  /\ encoderGapThresholdSteps' = 0
  /\ QUpdateBeamDebounce(FALSE, 0, inventoryPending)
  /\ console' = <<<<"quit">>>>
  /\ stack' = <<Frame("q_prompt", "", 1)>>
  /\ UNCHANGED <<estop, lastSelectedBin, ret, quitRest>>

\* "quit": resetToBeginningState, then the gate update, then the startup
\* prompt; frame of the prompt: b = 1 when entered by quit
QCmdQuit ==
  /\ pc = "q_read"
  /\ Top.a = "quit"
  /\ homed' = FALSE
  /\ currentBin' = UNKNOWN
  /\ encoderGapThresholdSteps' = 0
  /\ lastSelectedBin' = UNKNOWN
  /\ QUpdateBeamDebounce(FALSE, 0, FALSE)
  /\ console' = <<<<"quit">>>>
  /\ stack' = <<Frame("q_prompt", "", 1)>>
  /\ UNCHANGED <<estop, ret, quitRest>>

\* an "h" that homes from the command loop
QCmdHomeRuns ==
  /\ pc = "q_read"
  /\ Top.a = "h"
  /\ \E ok \in BOOLEAN : QHomeRoutine(ok)
  /\ stack' = <<Frame("q_loop", "", 0)>>
  /\ UNCHANGED <<gateVars, now, inventoryPending, ret, console, quitRest>>

\* "h" in the command loop: a message only
QCmdHomeIgnored ==
  /\ pc = "q_read"
  /\ Top.a = "h"
  /\ console' = <<<<"ignored">>>>
  /\ stack' = <<Frame("q_loop", "", 0)>>
  /\ UNCHANGED <<estop, navVars, gateVars, now, inventoryPending,
                 lastSelectedBin, ret, quitRest>>

\* "i": the tests of the command, then runInventorySequence by its outcome
QCmdInventory ==
  /\ pc = "q_read"
  /\ Top.a = "i"
  /\ IF \/ ~inventoryPending
        \/ beamStableBlocked
        \/ gateLockout
        \/ ~homed
        \/ lastSelectedBin \notin Bins
       THEN UNCHANGED <<estop, currentBin, inventoryPending>>
       ELSE \E ok \in BOOLEAN :
              /\ QMoveBins(2, ok)
              /\ IF ok
                   THEN \E measured \in BOOLEAN :
                          /\ inventoryPending' = ~measured
                   ELSE UNCHANGED inventoryPending
  /\ stack' = <<Frame("q_loop", "", 0)>>
  /\ UNCHANGED <<homed, encoderGapThresholdSteps, gateVars, now,
                 lastSelectedBin, ret, console, quitRest>>

\* "bin0".."bin3": the refusals, then moveToBin by its outcome and, after a
\* move, the gate update with the test of beamStableBlocked (the gate was
\* not locked, so the rearm timer cannot expire here)
QCmdBin ==
  /\ pc = "q_read"
  /\ ParseBinCommand(Top.a) # UNKNOWN
  /\ LET targetBin == ParseBinCommand(Top.a)
         steps == StepsNeeded(targetBin, currentBin)
     IN  IF gateLockout \/ inventoryPending \/ ~homed
           THEN UNCHANGED <<estop, currentBin, lastSelectedBin, gateVars, now,
                            inventoryPending>>
           ELSE \E ok \in BOOLEAN :
                  /\ IF steps = 0
                       THEN ok /\ UNCHANGED <<estop, currentBin>>
                       ELSE QMoveBins(steps, ok)
                  /\ IF ok
                       THEN /\ lastSelectedBin' = targetBin
                            /\ \E raw \in BOOLEAN, t \in Later :
                                 LET lastChange == IF raw # beamLastRawBlocked
                                                     THEN t ELSE beamLastChangeMs
                                     accepted == /\ Debounced(t, lastChange)
                                                 /\ raw # beamStableBlocked
                                     stable == IF accepted THEN raw
                                               ELSE beamStableBlocked
                                     openedAt == IF accepted /\ raw THEN 0
                                                 ELSE IF accepted THEN t
                                                 ELSE gateOpenedAtMs
                                 IN  /\ now' = t
                                     /\ beamLastRawBlocked' = raw
                                     /\ beamLastChangeMs' = lastChange
                                     /\ beamStableBlocked' = stable
                                     /\ gateLockout' = stable
                                     /\ gateOpenedAtMs' =
                                          IF stable THEN 0 ELSE openedAt
                            /\ UNCHANGED inventoryPending
                       ELSE UNCHANGED <<lastSelectedBin, gateVars, now,
                                        inventoryPending>>
  /\ stack' = <<Frame("q_loop", "", 0)>>
  /\ UNCHANGED <<homed, encoderGapThresholdSteps, ret, console, quitRest>>

\* any other line
QCmdUnknown ==
  /\ pc = "q_read"
  /\ Top.a = "x"
  /\ stack' = <<Frame("q_loop", "", 0)>>
  /\ UNCHANGED <<estop, navVars, gateVars, now, inventoryPending,
                 lastSelectedBin, ret, console, quitRest>>

\* startupPromptAndHome, the head of its loop: the poll, the latch test, the
\* gate update and the line read.  On the latch it returns false and control
\* is back in loop().
QPromptTop ==
  /\ pc = "q_prompt"
  /\ \E eByte \in BOOLEAN :
       /\ estop' = (estop \/ eByte)
       /\ IF estop'
            THEN /\ stack' = <<Frame("q_loop", "", 0)>>
                 /\ UNCHANGED <<gateVars, now, inventoryPending>>
            ELSE /\ QUpdateBeamDebounce(gateLockout, gateOpenedAtMs,
                                        inventoryPending)
                 /\ \E l \in QLines :
                      stack' = <<Frame("q_prompt_read", l, Top.b)>>
  /\ console' = <<>>
  /\ UNCHANGED <<navVars, lastSelectedBin, ret, quitRest>>

\* "h" at the prompt: homeRoutine; on success the command loop, on the
\* latch the return of false, otherwise the prompt again
QPromptHome ==
  /\ pc = "q_prompt_read"
  /\ Top.a = "h"
  /\ \E ok \in BOOLEAN :
       /\ QHomeRoutine(ok)
       /\ stack' = IF ok \/ estop'
                     THEN <<Frame("q_loop", "", 0)>>
                     ELSE <<Frame("q_prompt", "", Top.b)>>
  /\ UNCHANGED <<gateVars, now, inventoryPending, ret, console, quitRest>>

\* any other line at the prompt: a message only
QPromptOther ==
  /\ pc = "q_prompt_read"
  /\ Top.a # "h"
  /\ console' = IF Top.a = "" THEN console ELSE <<<<"please", Top.a>>>>
  /\ stack' = <<Frame("q_prompt", "", Top.b)>>
  /\ UNCHANGED <<estop, navVars, gateVars, now, inventoryPending,
                 lastSelectedBin, ret, quitRest>>

\* setup() up to the startup prompt
QuitInit ==
  /\ estop = FALSE
  /\ homed = FALSE
  /\ currentBin = UNKNOWN
  /\ encoderGapThresholdSteps = 0
  /\ beamLastRawBlocked \in BOOLEAN
  /\ beamStableBlocked = beamLastRawBlocked
  /\ beamLastChangeMs = StartMs
  /\ gateLockout = beamStableBlocked
  /\ gateOpenedAtMs = 0
  /\ inventoryPending = FALSE
  /\ lastSelectedBin = UNKNOWN
  /\ inventoryRequested = FALSE
  /\ binRequested = FALSE
  /\ requestedBin = UNKNOWN
  /\ stack = <<Frame("q_prompt", "", 0)>>
  /\ ret = FALSE
  /\ now = StartMs
  /\ obsGate = IF beamStableBlocked THEN "blocked" ELSE "none"
  /\ obsOpenAt = 0
  /\ obsBinCmds = 0
  /\ obsInvFresh = FALSE
  /\ obsRefusedBin = UNKNOWN
  /\ obsRefusedBlocked = FALSE
  /\ moveOneCalls = 0
  /\ bursts = 0
  /\ AuxIdle

QuitNext ==
  \/ QLoopTop \/ QCmdNone \/ QCmdEstop \/ QCmdQuit \/ QCmdHomeIgnored
  \/ QCmdInventory \/ QCmdBin \/ QCmdUnknown
  \/ QPromptTop \/ QPromptHome \/ QPromptOther

QuitSpec == QuitInit /\ [][QuitNext]_vars

----------------------------------------------------------------------------
(* One homeRoutine call with an index switch that is free to miss press    *)
(* events: a successful seek reports any of the distances between two      *)
(* press events of the drum, in any order.  The sketch runs on (weak        *)
(* fairness of its steps); nothing is assumed of the switch.                *)

\* stepsMoved of a successful seek
SeekCounts == { GapAfter(k) : k \in 0..4 }

homeRest == <<gateVars, inventoryPending, now, obsGate, obsOpenAt, countVars,
              pulseVars, seeks, drum, measVars>>

\* seekNextPressEventCCW (lines 384-428) by outcome: success writes the
\* count through the reference stepsMoved, a local of the caller (field a of
\* its frame); failure is the latch or a guard
HrSeek ==
  /\ pc = "hr_seek"
  /\ \E ok \in BOOLEAN :
       /\ ret' = ok
       /\ IF ok
            THEN /\ ~estop
                 /\ \E g \in SeekCounts :
                      stack' = <<[stack[2] EXCEPT !.a = g]>> \o Tail(Tail(stack))
                 /\ UNCHANGED estop
            ELSE /\ estop' \in {estop, TRUE}
                 /\ stack' = Tail(stack)
  /\ UNCHANGED <<navVars, lastSelectedBin, queueVars, queueObs, gaps, homeRest>>

\* lines 530-541: the resets and the call of the discarded seek
HrEntry ==
  /\ pc = "hr_entry"
  /\ HomeEntry
  /\ gaps' = <<>>
  /\ Call("hr_discard", Frame("hr_seek", 0, 0))
  /\ UNCHANGED <<lastSelectedBin, ret, homeRest>>

\* lines 541 and 545: the discarded seek has returned; the first sampling
\* seek is called
HrDiscard ==
  /\ pc = "hr_discard"
  /\ IF ret
       THEN Call("hr_gap", Frame("hr_seek", 0, 0)) /\ UNCHANGED ret
       ELSE Return(FALSE)
  /\ UNCHANGED <<estop, navVars, lastSelectedBin, queueVars, queueObs, gaps,
                 homeRest>>

\* lines 543-563: a sampling seek has returned; its gap is stored (gaps is
\* kept sorted, only sorted[] is read), and after HOME_SAMPLE_EVENTS of them
\* the threshold is written and the first seek of the scan called
HrGap ==
  /\ pc = "hr_gap"
  /\ IF ret
       THEN /\ gaps' = SortLong(Append(gaps, Top.a))
            /\ IF Len(gaps) + 1 = HOME_SAMPLE_EVENTS
                 THEN /\ encoderGapThresholdSteps' =
                           GapThreshold(Append(gaps, Top.a))
                      /\ Call("hr_scan", Frame("hr_seek", 0, 0))
                 ELSE /\ Call("hr_gap", Frame("hr_seek", 0, 0))
                      /\ UNCHANGED encoderGapThresholdSteps
            /\ UNCHANGED ret
       ELSE /\ Return(FALSE)
            /\ UNCHANGED <<gaps, encoderGapThresholdSteps>>
  /\ UNCHANGED <<estop, homed, currentBin, lastSelectedBin, queueVars,
                 queueObs, homeRest>>

\* lines 561-577: a seek of the scan has returned; a short gap ends the scan
\* with the offset burst (by outcome), any other gap calls the next seek
HrScan ==
  /\ pc = "hr_scan"
  /\ IF ~ret
       THEN /\ Return(FALSE)
            /\ UNCHANGED <<estop, navVars, lastSelectedBin>>
       ELSE IF ShortGap(Top.a, encoderGapThresholdSteps)
         THEN \E ok \in BOOLEAN :
                IF ok
                  THEN /\ currentBin' = 0
                       /\ homed' = TRUE
                       /\ lastSelectedBin' = 0
                       /\ Return(TRUE)
                       /\ UNCHANGED <<estop, encoderGapThresholdSteps>>
                  ELSE /\ estop' = TRUE
                       /\ Return(FALSE)
                       /\ UNCHANGED <<navVars, lastSelectedBin>>
         ELSE /\ Call("hr_scan", Frame("hr_seek", 0, 0))
              /\ UNCHANGED <<estop, navVars, lastSelectedBin, ret>>
  /\ UNCHANGED <<queueVars, queueObs, gaps, homeRest>>

HomeLiveInit ==
  /\ estop = FALSE
  /\ homed = FALSE
  /\ currentBin = UNKNOWN
  /\ encoderGapThresholdSteps = 0
  /\ beamLastRawBlocked \in BOOLEAN
  /\ beamStableBlocked = beamLastRawBlocked
  /\ beamLastChangeMs = StartMs
  /\ gateLockout = beamStableBlocked
  /\ gateOpenedAtMs = 0
  /\ inventoryPending = FALSE
  /\ lastSelectedBin = UNKNOWN
  /\ inventoryRequested = FALSE
  /\ binRequested = FALSE
  /\ requestedBin = UNKNOWN
  /\ stack = <<Frame("hr_entry", 0, 0), Frame("hr_done", 0, 0)>>
  /\ ret = FALSE
  /\ now = StartMs
  /\ obsGate = IF beamStableBlocked THEN "blocked" ELSE "none"
  /\ obsOpenAt = 0
  /\ obsBinCmds = 0
  /\ obsInvFresh = FALSE
  /\ obsRefusedBin = UNKNOWN
  /\ obsRefusedBlocked = FALSE
  /\ moveOneCalls = 0
  /\ bursts = 0
  /\ AuxIdle

HomeLiveNext == HrEntry \/ HrSeek \/ HrDiscard \/ HrGap \/ HrScan

HomeLiveSpec == HomeLiveInit /\ [][HomeLiveNext]_vars /\ WF_vars(HomeLiveNext)

----------------------------------------------------------------------------
(* confirmPressed and confirmReleased, poll by poll.  The caller's frame   *)
(* holds what the index switch reads at each of the polls to come.         *)

PRESS_CONFIRM_POLLS == 5

RELEASE_CONFIRM_POLLS == 7

\* raw readings of the switch, TRUE for pressed, one for each poll
SwitchReadings == [1..RELEASE_CONFIRM_POLLS -> BOOLEAN]

confirmRest == <<estop, navVars, gateVars, inventoryPending, lastSelectedBin,
                 queueVars, now, gateObs, queueObs, countVars, auxVars>>

\* a run confirmed by its last sample alone
ConfirmedByLastSample(ok, polls) == ok >= 1

\* lines 239 and 249
Confirmed(ok, polls) == ok >= polls

\* lines 232-240; frame: a = i, b = ok
ConfirmPressed ==
  /\ pc = "cp_loop"
  /\ IF Top.a < PRESS_CONFIRM_POLLS
       THEN /\ stack' = <<Frame("cp_loop", Top.a + 1,
                                IF stack[2].a[Top.a + 1] THEN Top.b + 1 ELSE 0)>>
                        \o Tail(stack)
            /\ UNCHANGED ret
       ELSE Return(Confirmed(Top.b, PRESS_CONFIRM_POLLS))
  /\ UNCHANGED confirmRest

\* lines 242-250; frame: a = i, b = ok
ConfirmReleased ==
  /\ pc = "cr_loop"
  /\ IF Top.a < RELEASE_CONFIRM_POLLS
       THEN /\ stack' = <<Frame("cr_loop", Top.a + 1,
                                IF ~stack[2].a[Top.a + 1] THEN Top.b + 1 ELSE 0)>>
                        \o Tail(stack)
            /\ UNCHANGED ret
       ELSE Return(Confirmed(Top.b, RELEASE_CONFIRM_POLLS))
  /\ UNCHANGED confirmRest

\* a call of confirmPressed (line 411) or of confirmReleased (lines 392,
\* 418) from a seek
ConfirmCall ==
  /\ pc = "cf_call"
  /\ \/ Call("cf_pressed_ret", Frame("cp_loop", 0, 0))
     \/ Call("cf_released_ret", Frame("cr_loop", 0, 0))
  /\ UNCHANGED <<ret, confirmRest>>

ConfirmInit ==
  /\ estop = FALSE
  /\ homed = FALSE
  /\ currentBin = UNKNOWN
  /\ encoderGapThresholdSteps = 0
  /\ beamLastRawBlocked \in BOOLEAN
  /\ beamStableBlocked = beamLastRawBlocked
  /\ beamLastChangeMs = StartMs
  /\ gateLockout = beamStableBlocked
  /\ gateOpenedAtMs = 0
  /\ inventoryPending = FALSE
  /\ lastSelectedBin = UNKNOWN
  /\ inventoryRequested = FALSE
  /\ binRequested = FALSE
  /\ requestedBin = UNKNOWN
  /\ \E readings \in SwitchReadings : stack = <<Frame("cf_call", readings, 0)>>
  /\ ret = FALSE
  /\ now = StartMs
  /\ obsGate = IF beamStableBlocked THEN "blocked" ELSE "none"
  /\ obsOpenAt = 0
  /\ obsBinCmds = 0
  /\ obsInvFresh = FALSE
  /\ obsRefusedBin = UNKNOWN
  /\ obsRefusedBlocked = FALSE
  /\ moveOneCalls = 0
  /\ bursts = 0
  /\ AuxIdle

ConfirmNext == ConfirmCall \/ ConfirmPressed \/ ConfirmReleased

ConfirmSpec == ConfirmInit /\ [][ConfirmNext]_vars

----------------------------------------------------------------------------
(* Properties *)

\* C1: inventoryPending is set only by updateBeamDebounce, in a call that
\* finds the gate re-arming (open and locked out, its last message "GATE:
\* OPEN") at least BEAM_ARM_DELAY_MS after the most recent accepted
\* blocked -> open transition; never in a call that finds the gate blocked,
\* and an accepted block in between restarts the wait.
C1_PendingOnlyAfterRearm ==
  [][ ((~inventoryPending /\ inventoryPending')
        \/ (obsGate # "ready" /\ obsGate' = "ready"))
      => /\ pc \in {"loop_top", "boot_top", "loop_bin_ret"}
         /\ obsGate = "open"
         /\ gateLockout
         /\ ~beamStableBlocked
         /\ ~beamStableBlocked'
         /\ Elapsed(now', obsOpenAt) >= BEAM_ARM_DELAY_MS
         /\ inventoryPending'
         /\ ~gateLockout' ]_vars

\* the gate has just re-armed, a full rearm delay after it opened
C1_Witness ==
  /\ pc = "try_entry"
  /\ obsGate = "ready"
  /\ inventoryPending
  /\ ~gateLockout
  /\ gateOpenedAtMs = 0
  /\ Elapsed(now, StartMs) >= BEAM_ARM_DELAY_MS

\* C2: from an accepted stable block until the gate has re-opened and
\* re-armed, gateLockout is true; while the gate is blocked gateOpenedAtMs is
\* 0; and while gateLockout is true no bin move and no inventory sequence is
\* in progress.
C2_BlockLocksGate ==
  /\ beamStableBlocked => obsGate = "blocked"
  /\ obsGate = "blocked" => gateLockout /\ gateOpenedAtMs = 0
  /\ obsGate = "open" => gateLockout /\ ~beamStableBlocked
  /\ gateLockout =>
       \A i \in DOMAIN stack :
         stack[i].pc \notin {"mtb_entry", "mtb_ret", "mbs_loop",
                             "inv_entry", "inv_moved", "inv_ret"}

\* a block was accepted after the carousel was homed and moved, and a bin
\* command is waiting behind it
C2_Witness ==
  /\ obsGate = "blocked"
  /\ beamStableBlocked
  /\ homed
  /\ currentBin # 0
  /\ binRequested
  /\ pc = "loop_read"

\* C3: a moveToBin started by a bin command, read from the console or
\* replayed from the queue, starts and runs only while the gate is READY; a
\* refused command is left in the queue, and no rotation is in progress when
\* the pass ends.
C3_BinMoveOnlyWhenReady ==
  /\ \A i \in DOMAIN stack :
       stack[i].pc \in {"mtb_entry", "mtb_ret"} => GateReady
  /\ obsRefusedBin # UNKNOWN =>
       /\ binRequested
       /\ requestedBin \in Bins
       /\ ~GateReady \/ pc = "try_entry"
  /\ pc = "loop_top" => Len(stack) = 1 /\ moveOneCalls = 0 /\ bursts = 0

\* a replayed bin move is starting, the gate READY
C3_Witness ==
  /\ pc = "mtb_entry"
  /\ Len(stack) >= 2
  /\ stack[2].pc = "try_bin_ret"
  /\ GateReady
  /\ homed

\* C4: once set, estop is never set back to false by the software.
C4_LatchNeverCleared == [][estop => estop']_vars

\* C5: inventoryPending goes from true to false only at the end of a
\* successful runInventorySequence: the rotation has succeeded, the
\* measurement window has run to its end and the latch is clear.
C5_PendingClearedOnlyByInventory ==
  [][ (inventoryPending /\ ~inventoryPending')
      => /\ pc = "inv_moved"
         /\ ret
         /\ ~estop'
         /\ Elapsed(now', now) >= US_WINDOW_MS
         /\ \E i \in DOMAIN stack' : stack'[i].pc = "inv_ret" ]_vars

\* an inventory sequence has just cleared inventoryPending
C5_Witness ==
  /\ pc = "try_entry"
  /\ Len(stack) >= 2
  /\ stack[2].pc = "inv_ret"
  /\ ~inventoryPending
  /\ ~estop
  /\ obsGate = "ready"

\* C6: a bin command refused while the beam was blocked stays queued while
\* the gate is blocked, re-arming or INVENTORY_PENDING, no bin move running;
\* it is replayed only by the drain an inventory sequence makes after it has
\* cleared inventoryPending, and when that replay succeeds currentBin is the
\* requested bin.
C6_QueuedBinRunsAfterInventory ==
  /\ (binRequested /\ obsRefusedBlocked /\ ~GateReady) =>
       \A i \in DOMAIN stack : stack[i].pc \notin {"mtb_entry", "mtb_ret"}
  /\ \A i \in DOMAIN stack :
       (stack[i].pc = "try_bin_ret" /\ stack[i].b = 1) =>
         /\ i < Len(stack)
         /\ stack[i + 1].pc = "inv_ret"
         /\ ~inventoryPending
         /\ ~gateLockout
         /\ (i = 1 /\ ret) => currentBin = stack[i].a

\* "bin2" was refused while the beam was blocked; the drain of an inventory
\* sequence has replayed it, the drum made 3 moveOneBin steps and is at bin 2
C6_Witness ==
  /\ pc = "mtb_ret"
  /\ ret
  /\ Top.a = 2
  /\ currentBin = 2
  /\ moveOneCalls = 3
  /\ Len(stack) >= 3
  /\ stack[2].pc = "try_bin_ret"
  /\ stack[2].b = 1
  /\ stack[3].pc = "inv_ret"

\* C7: a queued request is executed at most once per command: a flag is up
\* only while a command it stands for has not been executed, and it is down
\* (the bin payload reset) when the call that executes it starts.
C7_QueuedRunsOncePerCommand ==
  /\ binRequested => obsBinCmds > 0
  /\ inventoryRequested => obsInvFresh
  /\ \A i \in DOMAIN stack :
       /\ (stack[i].pc = "try_bin_ret" /\ i > 1 /\ stack[i - 1].pc = "mtb_entry")
            => ~binRequested /\ requestedBin = UNKNOWN
       /\ (stack[i].pc = "try_inv_ret" /\ i > 1 /\ stack[i - 1].pc = "inv_entry")
            => ~inventoryRequested

\* the drain is starting the queued inventory, its flag already down
C7_Witness ==
  /\ pc = "inv_entry"
  /\ Len(stack) >= 2
  /\ stack[2].pc = "try_inv_ret"
  /\ ~inventoryRequested
  /\ ~obsInvFresh
  /\ inventoryPending

\* C8: the queue holds at most one bin request and one inventory request;
\* the bin it holds is the bin of the newest refused command, and it holds
\* no bin when no bin request is queued.
C8_NewestPayloadWins ==
  /\ binRequested \in BOOLEAN
  /\ inventoryRequested \in BOOLEAN
  /\ binRequested => requestedBin \in Bins /\ requestedBin = obsRefusedBin
  /\ ~binRequested => requestedBin = UNKNOWN /\ obsRefusedBin = UNKNOWN

\* a second refused bin command has replaced the queued bin, an inventory
\* request queued beside it
C8_Witness ==
  /\ binRequested
  /\ inventoryRequested
  /\ obsBinCmds = 2
  /\ requestedBin = 3
  /\ obsRefusedBin = 3

\* C9: a queued request never waits for a command: whenever the latch is
\* clear and a queued request can run (a bin request with the gate READY, an
\* inventory request with inventoryPending true, gateLockout false and the
\* beam not stably blocked), the firmware is entering a drain, so the request
\* is executed before the next command is read.
C9_QueuedRunsBeforeNextCommand ==
  /\ DrainRuns => pc = "try_entry"
  /\ pc \in {"loop_read", "boot_read", "loop_top"} => ~DrainRuns

\* in the pass in which the gate re-arms, the drain is entered with the
\* queued inventory request ready to run, before any command is read
C9_Witness ==
  /\ pc = "try_entry"
  /\ DrainRuns
  /\ inventoryRequested
  /\ InventoryRunnable
  /\ Len(stack) = 2
  /\ stack[2].pc = "loop_drain"

\* C10: when moveToBin(t) returns true, currentBin = t and moveOneBin was
\* called exactly (t - previous currentBin + 4) mod 4 times; when that number
\* is 0 no pulse burst was started.
C10_MoveToBinSteps ==
  (pc = "mtb_ret" /\ ret) =>
    /\ currentBin = Top.a
    /\ moveOneCalls = (Top.a - Top.b + 4) % 4
    /\ moveOneCalls = 0 => bursts = 0 /\ currentBin = Top.b
    /\ moveOneCalls > 0 => bursts > moveOneCalls

\* moveToBin(2) from bin 3 has returned true after 3 moveOneBin calls, the
\* encoder artifact skipped on the way
C10_Witness ==
  /\ pc = "mtb_ret"
  /\ ret
  /\ Top.a = 2
  /\ Top.b = 3
  /\ moveOneCalls = 3
  /\ bursts = 7
  /\ currentBin = 2

\* C18: while the call of tryRunQueuedCommands that ran the queued inventory
\* has not returned, no moveToBin of a queued bin request is in progress.
C18_NoBinMoveInsideInventoryDrain ==
  \A i, j \in DOMAIN stack :
    (i < j /\ stack[j].pc = "try_inv_ret") =>
      stack[i].pc \notin {"mtb_entry", "mtb_ret"}

\* C13: a completed inventory sequence has written one status line and one
\* log line, both HI when the distance is defined and below
\* INVENTORY_THRESH_CM, both LO when it is defined and not below it, and
\* both LO when it is undefined; nothing is written before completion.
C13_ClassificationMatchesDistance ==
  /\ pc = "inv_done" =>
       LET class == IF retCm = NAN THEN "LO"
                    ELSE IF retCm < INVENTORY_THRESH_CM * CmUnit THEN "HI"
                    ELSE "LO"
       IN  console = << <<"status", class>>, <<"log", lastSelectedBin, class>> >>
  /\ pc # "inv_done" => console = <<>>

\* an inventory has completed on an undefined distance, the latch clear
C13_Witness ==
  /\ pc = "inv_done"
  /\ retCm = NAN
  /\ ~estop
  /\ Len(console) = 2

\* C14: when readRobustDistance4sCm has returned with fewer than 5 medians
\* in meds[], the value it returned is NAN.
C14_FewMediansUndefined ==
  (pc \in {"inv_classify", "inv_done", "inv_failed"} /\ Len(meds) < 5)
    => retCm = NAN

\* the window ended with 1 to 4 medians, the latch clear, and the estimator
\* has returned
C14_Witness ==
  /\ pc = "inv_classify"
  /\ Len(meds) \in 1..4
  /\ elapsed = US_WINDOW_MS
  /\ ~estop
  /\ retCm = NAN

\* C11: homeRoutine sets the threshold only after the discarded press event
\* and exactly HOME_SAMPLE_EVENTS recorded gaps, it reports the drum homed
\* only after at least HOME_SAMPLE_EVENTS + 2 successful seeks, and the
\* threshold is round(0.6 * g) where g is the sixth smallest of the recorded
\* gaps (sorted[HOME_SAMPLE_EVENTS / 2]).
C11_ThresholdFromSixthSmallestGap ==
  [][/\ (pc = "n_home_gaps" /\ pc' = "n_home_scan") =>
          /\ Len(gaps) = HOME_SAMPLE_EVENTS
          /\ seeks = HOME_SAMPLE_EVENTS + 1
          /\ encoderGapThresholdSteps' =
               RoundDiv(SortLong(gaps)[6] * 60, 100)
     /\ homed' => seeks' >= HOME_SAMPLE_EVENTS + 2]_vars

\* C11 as stated: the threshold is round(0.6 * median of the 10 gaps), the
\* median of ten values being the mean of the fifth and the sixth smallest.
C11_ThresholdFromMedian ==
  [][/\ (pc = "n_home_gaps" /\ pc' = "n_home_scan") =>
          /\ Len(gaps) = HOME_SAMPLE_EVENTS
          /\ seeks = HOME_SAMPLE_EVENTS + 1
          /\ encoderGapThresholdSteps' =
               RoundDiv((SortLong(gaps)[5] + SortLong(gaps)[6]) * 60, 200)
     /\ homed' => seeks' >= HOME_SAMPLE_EVENTS + 2]_vars

C11_Witness ==
  /\ pc = "n_ret"
  /\ Top.a = 0
  /\ ret
  /\ homed
  /\ seeks >= HOME_SAMPLE_EVENTS + 2
  /\ encoderGapThresholdSteps = RoundDiv((STEPS_PER_REV \div 4) * 60, 100) + 1

\* C12: a homeRoutine that returns false leaves homed false and currentBin
\* at -1, also when the drum had been homed before; and while the drum is
\* not homed no moveToBin gets past its test: it returns false without the
\* driver having been enabled, so without a step pulse.
C12_FailedHomingRejectsBinMoves ==
  /\ (pc = "n_ret" /\ Top.a = 0 /\ ~ret) =>
        (~homed /\ currentBin = UNKNOWN)
  /\ ~homed =>
        /\ \A i \in DOMAIN stack : stack[i].pc # "n_mtb_ret"
        /\ (pc = "n_ret" /\ Top.a = 1) => (~ret /\ enables = 0)

C12_Witness ==
  /\ pc = "n_ret"
  /\ Top.a = 1
  /\ ~ret
  /\ ~homed
  /\ currentBin = UNKNOWN
  /\ lastSelectedBin \in Bins
  /\ enables = 0

\* C15: runInventorySequence called when the drum is not homed, the beam is
\* stably blocked, no inventory is pending or lastSelectedBin is outside
\* 0..3, moveToBin called when not homed or with a target outside 0..3, and
\* moveOneBin called when not homed, return false at once: the driver is not
\* enabled, the drum does not move, and homed, currentBin, lastSelectedBin,
\* inventoryPending and the gate variables keep their values.
C15_InvalidCallsChangeNothing ==
  [][(\/ /\ pc = "n_inv_entry"
         /\ \/ ~homed
            \/ beamStableBlocked
            \/ ~inventoryPending
            \/ lastSelectedBin \notin Bins
      \/ /\ pc = "n_mtb_entry"
         /\ (~homed \/ Top.a \notin Bins)
      \/ /\ pc = "n_mob_entry"
         /\ ~homed)
     => /\ stack' = Tail(stack)
        /\ ret' = FALSE
        /\ UNCHANGED <<enables, drum, homed, currentBin, lastSelectedBin,
                       inventoryPending, gateVars>>]_vars

C15_Witness ==
  /\ pc = "n_ret"
  /\ Top.a = 2
  /\ ~ret
  /\ homed
  /\ beamStableBlocked
  /\ inventoryPending
  /\ enables = 0

\* C19: the driver is enabled only inside a running stepCCW or
\* seekNextPressEventCCW: whenever one of them has returned, by any path,
\* and control is back in the command loop or in the ultrasonic
\* measurement, the enable line is disabled.
C19_DriverDisabledOutsideBursts ==
  /\ pc \in {"p_idle", "p_ret", "p_measure"} => ~en
  /\ en => \E i \in DOMAIN stack :
              stack[i].pc \in {"sk_loop", "sk_ret", "sc_loop", "sc_ret"}

C19_Witness ==
  /\ pc = "p_ret"
  /\ ~ret
  /\ ~estop
  /\ ~en

\* C20: stepPulseChecked called with the latch set, or with an 'e' waiting,
\* returns false without a pulse; no pulse is ever in flight with the latch
\* set; a pulse during which the 'e' arrives is completed and
\* stepPulseChecked then returns false, so no pulse begins after the 'e'.
C20_NoPulseAfterEstop ==
  [][/\ (pc = "spc_entry" /\ stack' # stack /\ (estop \/ serialE)) =>
           (stack' = Tail(stack) /\ ret' = FALSE /\ estop')
     /\ (pc = "spc_pulse" /\ stack' # stack /\ (estop \/ serialE)) =>
           (stack' = Tail(stack) /\ ret' = FALSE /\ estop')
     /\ (pc' = "spc_pulse" => ~estop')
     /\ lateStarts' = 0]_vars

C20_Witness ==
  /\ pc = "sk_ret"
  /\ ~ret
  /\ estop
  /\ Top.b > 0
  /\ lateStarts = 0

\* C16: quit leaves homed false, currentBin and lastSelectedBin at -1,
\* encoderGapThresholdSteps at 0 and inventoryPending false and enters the
\* startup prompt; at the prompt the drum stays un-homed with no bin known,
\* and a line other than "h" changes nothing: neither the latch, the
\* navigator, the gate variables, inventoryPending nor lastSelectedBin.
C16_QuitReturnsToStartup ==
  [][/\ (pc = "q_read" /\ Top.a = "quit") =>
           /\ pc' = "q_prompt"
           /\ ~homed'
           /\ currentBin' = UNKNOWN
           /\ lastSelectedBin' = UNKNOWN
           /\ encoderGapThresholdSteps' = 0
           /\ ~inventoryPending'
     /\ pc' \in {"q_prompt", "q_prompt_read"} =>
           (~homed' /\ currentBin' = UNKNOWN /\ lastSelectedBin' = UNKNOWN)
     /\ (pc = "q_prompt_read" /\ Top.a # "h") =>
           /\ pc' = "q_prompt"
           /\ UNCHANGED <<estop, navVars, gateVars, inventoryPending,
                          lastSelectedBin>>
     /\ (pc # "q_prompt_read" /\ ~homed) => ~homed']_vars

C16_Witness ==
  /\ pc = "q_prompt"
  /\ Top.b = 1
  /\ console = <<<<"please", "bin1">>>>
  /\ ~homed
  /\ lastSelectedBin = UNKNOWN
  /\ ~estop

\* C17: "h" read by the command loop is ignored: the latch, homed,
\* currentBin, encoderGapThresholdSteps, lastSelectedBin, inventoryPending
\* and the gate variables keep their values and the loop goes on; the drum
\* becomes homed only by an "h" at the startup prompt.
C17_HomeIgnoredInCommandLoop ==
  [][/\ (pc = "q_read" /\ Top.a = "h") =>
           /\ pc' = "q_loop"
           /\ UNCHANGED <<estop, navVars, gateVars, inventoryPending,
                          lastSelectedBin>>
     /\ (homed' /\ ~homed) => (pc = "q_prompt_read" /\ Top.a = "h")
     /\ pc \in {"q_loop", "q_read"} =>
           encoderGapThresholdSteps' \in {encoderGapThresholdSteps, 0}]_vars

C17_Witness ==
  /\ pc = "q_loop"
  /\ console = <<<<"ignored">>>>
  /\ homed
  /\ currentBin = 2
  /\ inventoryPending
  /\ ~estop

\* C21: once the latch is set no further pulse burst is begun, so the driver
\* is not enabled again: while estop holds, the count of the bursts begun by
\* the moveToBin in progress does not grow.
C21_NoBurstOnceLatched ==
  [][estop => bursts' <= bursts]_vars

\* C22: a bin move is started on the gate state of the last gate update: no
\* moveToBin is entered while a runInventorySequence, which has rotated the
\* drum and measured since that update, is still waiting for its drain.
C22_NoBinMoveOnStaleGate ==
  \A i, j \in DOMAIN stack :
    (i < j /\ stack[i].pc = "mtb_entry") => stack[j].pc # "inv_ret"

\* C23: in the sketch with quit, a bin command read while the beam is stably
\* blocked is refused, after a quit and a new homing as at any other time:
\* the gate is locked or an inventory is pending.
C23_BinRefusedWhileBeamBlocked ==
  (/\ pc = "q_read"
   /\ ParseBinCommand(Top.a) # UNKNOWN
   /\ homed
   /\ beamStableBlocked)
  => (gateLockout \/ inventoryPending)

\* C24: a homed moveOneBin makes two seeks from bin 3 and one seek from bins
\* 0, 1 and 2, then the offset burst; currentBin is not written before the
\* offset burst has succeeded and is then 0 after bin 3 and currentBin + 1
\* otherwise; a successful moveOneBin has enabled the driver for exactly
\* these three or two bursts.
C24_MoveOneBinSeeksThenOffset ==
  [][/\ (pc = "n_mob_entry" /\ homed) =>
           /\ Head(stack').pc = "n_mob_seek"
           /\ Head(stack').a = (IF currentBin = 3 THEN 2 ELSE 1)
     /\ (pc = "n_mob_seek" /\ Head(stack').pc = "n_mob_offset") => Top.a = 1
     /\ (pc = "n_mob_seek" /\ Head(stack').pc = "n_mob_seek") =>
           (Top.a = 2 /\ Head(stack').a = 1)
     /\ pc \in {"n_mob_entry", "n_mob_seek"} => UNCHANGED currentBin
     /\ pc = "n_mob_offset" =>
           currentBin' = (IF ~ret' THEN currentBin
                          ELSE IF currentBin = 3 THEN 0 ELSE currentBin + 1)
     /\ (pc = "n_mob_offset" /\ ret' /\ Head(stack').pc = "n_ret") =>
           enables' = (IF currentBin = 3 THEN 3 ELSE 2)]_vars

C24_Witness ==
  /\ pc = "n_ret"
  /\ Top.a = 3
  /\ ret
  /\ currentBin = 0
  /\ enables = 3
  /\ ~estop

\* C25: a successful seek of the scan ends the scan exactly when its gap is
\* strictly less than encoderGapThresholdSteps; a gap equal to or greater
\* than the threshold leaves homed, currentBin, lastSelectedBin and the
\* threshold as they are; currentBin = 0, homed = true and lastSelectedBin
\* = 0 are written only by the offset burst that succeeds after the short
\* gap.
C25_ScanEndsAtFirstShortGap ==
  [][/\ (pc = "n_home_scan" /\ seeks' = seeks + 1) =>
           /\ (Head(stack').pc = "n_home_offset") =
                (Head(stack').a < encoderGapThresholdSteps)
           /\ Head(stack').pc \in {"n_home_offset", "n_home_scan"}
           /\ UNCHANGED <<navVars, lastSelectedBin>>
     /\ (pc = "n_home_offset" /\ ret') =>
           (homed' /\ currentBin' = 0 /\ lastSelectedBin' = 0)
     /\ (pc = "n_home_offset" /\ ~ret') =>
           UNCHANGED <<navVars, lastSelectedBin>>
     /\ (~homed /\ homed') => pc = "n_home_offset"]_vars

C25_Witness ==
  /\ pc = "n_home_scan"
  /\ Top.a = encoderGapThresholdSteps
  /\ seeks > HOME_SAMPLE_EVENTS + 1
  /\ ~homed
  /\ ~estop

\* C26: when homeRoutine has returned false, encoderGapThresholdSteps is 0,
\* whichever seek or burst of the attempt failed.
C26_FailedHomingClearsThreshold ==
  (pc = "n_ret" /\ Top.a = 0 /\ ~ret) => encoderGapThresholdSteps = 0

\* C27: a running seek has issued at most MAX_STEPS_TO_FIND_INDEX step
\* pulses.  Its pulses are at least those of the loop it is in, plus, once
\* the press is confirmed, the one pulse that found it, plus, in the last
\* release loop, the POST_HIT_ESCAPE_STEPS pulses of the escape.
C27_SeekPulsesWithinGuard ==
  \A i \in DOMAIN stack :
    stack[i].pc = "sk_loop" =>
      stack[i].b + (CASE stack[i].a = 4 -> POST_HIT_ESCAPE_STEPS + 1
                      [] stack[i].a = 3 -> 1
                      [] OTHER -> 0)
        <= MAX_STEPS_TO_FIND_INDEX

\* C28: a successful runInventorySequence has rotated the carousel exactly two
\* bin slots forward and left lastSelectedBin alone when its rotation has
\* returned and when it calls the drain of line 700, whatever lastSelectedBin is.
C28_RotatesTwoSlotsBeforeDrain ==
  /\ (pc = "inv_moved" /\ ret)
     => /\ currentBin = (Top.a + 2) % 4
        /\ lastSelectedBin = Top.b
  /\ (Len(stack) >= 2 /\ pc = "try_entry" /\ stack[2].pc = "inv_ret")
     => /\ currentBin = (stack[2].a + 2) % 4
        /\ lastSelectedBin = stack[2].b

\* C28 as stated: when a successful runInventorySequence returns, currentBin is
\* two slots past its value at the call and lastSelectedBin is unchanged.
C28_RotatesTwoSlotsOnReturn ==
  pc = "inv_ret"
  => /\ currentBin = (Top.a + 2) % 4
     /\ lastSelectedBin = Top.b

C28_Witness ==
  /\ pc = "inv_moved"
  /\ ret
  /\ Top.a = 3
  /\ Top.b = 3
  /\ currentBin = 1
  /\ lastSelectedBin = 3
  /\ inventoryPending
  /\ ~estop

\* C29: a completed inventory sequence has written exactly one log line and
\* its bin field is lastSelectedBin, whatever bin the carousel has rotated to;
\* an inventory that is running or has aborted has written no log line.
C29_OneLogLineTaggedLastSelected ==
  LET logs == { i \in DOMAIN console : console[i][1] = "log" }
  IN  /\ pc = "inv_done"
         => /\ Cardinality(logs) = 1
            /\ \A i \in logs : console[i][2] = lastSelectedBin
      /\ pc # "inv_done" => logs = {}

\* an inventory selected at bin 3 and measured at bin 1 has logged bin 3
C29_Witness ==
  /\ pc = "inv_done"
  /\ lastSelectedBin = 3
  /\ currentBin = 1
  /\ \E i \in DOMAIN console : console[i][1] = "log" /\ console[i][2] = 3
  /\ ~inventoryPending

\* C30: when the latch was set during the measurement, readRobustDistance4sCm
\* has returned NAN, and the sequence then fails with nothing written to the
\* console and inventoryPending still true.
C30_LatchAbortsEstimationUndefined ==
  /\ (pc = "inv_classify" /\ estop) => retCm = NAN
  /\ pc = "inv_failed"
     => /\ ~ret
        /\ console = <<>>
        /\ inventoryPending

\* C31: every inventory measurement ends: the sequence completes or fails.
C31_EstimationTerminates == <>(pc \in {"inv_done", "inv_failed"})

\* C32: every homeRoutine call returns, whatever the index switch does.
C32_HomingReturns == <>(pc = "hr_done")

\* C33: confirmPressed takes PRESS_CONFIRM_POLLS samples and returns true
\* exactly when all of them read pressed; confirmReleased takes
\* RELEASE_CONFIRM_POLLS samples and returns true exactly when all of them
\* read released.
C33_ConfirmedIffEverySampleAgrees ==
  /\ pc = "cp_loop" => Top.a <= PRESS_CONFIRM_POLLS
  /\ pc = "cr_loop" => Top.a <= RELEASE_CONFIRM_POLLS
  /\ pc = "cf_pressed_ret"
     => (ret <=> \A i \in 1..PRESS_CONFIRM_POLLS : Top.a[i])
  /\ pc = "cf_released_ret"
     => (ret <=> \A i \in 1..RELEASE_CONFIRM_POLLS : ~Top.a[i])

\* confirmPressed has returned false on one released sample, the second of
\* five, the four others pressed
C33_Witness ==
  /\ pc = "cf_pressed_ret"
  /\ ~ret
  /\ \A i \in 1..PRESS_CONFIRM_POLLS : Top.a[i] = (i # 2)

\* C34: beamStableBlocked changes only in a step whose raw sample equals the
\* new value, equals the raw value sampled before, and comes at least
\* BEAM_DEBOUNCE_MS after the last sampled change of the raw value.  While a
\* raw change is less than BEAM_DEBOUNCE_MS old the stable state stays, and
\* gateLockout and gateOpenedAtMs stay unless the rearm timer that was
\* already running expires.
C34_StableChangeOnlyAfterDebounce ==
  [][/\ beamStableBlocked' # beamStableBlocked
        => /\ beamLastRawBlocked' = beamStableBlocked'
           /\ beamLastRawBlocked = beamStableBlocked'
           /\ beamLastChangeMs' = beamLastChangeMs
           /\ Elapsed(now', beamLastChangeMs) >= BEAM_DEBOUNCE_MS
     /\ Elapsed(now', beamLastChangeMs') < BEAM_DEBOUNCE_MS
        => /\ beamStableBlocked' = beamStableBlocked
           /\ \/ UNCHANGED <<gateLockout, gateOpenedAtMs>>
              \/ /\ ArmExpired(now', gateLockout, beamStableBlocked, gateOpenedAtMs)
                 /\ ~gateLockout'
                 /\ gateOpenedAtMs' = 0
                 /\ inventoryPending']_vars

\* the gate is re-arming and the raw beam has just read blocked: the stable
\* state is still open and the rearm timer still runs
C34_Witness ==
  /\ beamLastRawBlocked
  /\ ~beamStableBlocked
  /\ Elapsed(now, beamLastChangeMs) < BEAM_DEBOUNCE_MS
  /\ gateLockout
  /\ gateOpenedAtMs # 0
  /\ homed

\* C34 as stated: a step that leaves a raw change less than BEAM_DEBOUNCE_MS
\* old alters neither the stable state nor gateLockout nor gateOpenedAtMs.
C34_UndebouncedChangeAltersNothing ==
  [][Elapsed(now', beamLastChangeMs') < BEAM_DEBOUNCE_MS
     => UNCHANGED <<beamStableBlocked, gateLockout, gateOpenedAtMs>>]_vars

\* C35: whenever the gate is locked out with the beam stably open,
\* gateOpenedAtMs is the non-zero instant of the accepted blocked -> open
\* transition; and a gate update that finds such a lockout with the beam
\* still open BEAM_ARM_DELAY_MS or more after that instant ends the lockout.
C35_RearmingCarriesTimestamp ==
  [][/\ (gateLockout' /\ ~beamStableBlocked')
        => /\ gateOpenedAtMs' # 0
           /\ gateOpenedAtMs' = obsOpenAt'
           /\ gateOpenedAtMs' <= now'
           /\ obsGate' = "open"
     /\ (/\ pc \in {"loop_top", "boot_top"}
         /\ Head(stack').pc \in {"loop_read", "loop_drain", "boot_read",
                                 "boot_drain", "try_entry"}
         /\ gateLockout
         /\ ~beamStableBlocked
         /\ ~beamStableBlocked'
         /\ Elapsed(now', gateOpenedAtMs) >= BEAM_ARM_DELAY_MS)
        => /\ ~gateLockout'
           /\ inventoryPending']_vars

\* a bin was selected, pulled out and put back: the gate is re-arming from
\* the instant the beam was accepted as open
C35_Witness ==
  /\ gateLockout
  /\ ~beamStableBlocked
  /\ gateOpenedAtMs = now
  /\ gateOpenedAtMs > StartMs
  /\ obsGate = "open"
  /\ homed
  /\ lastSelectedBin > 0

\* C36: homed is true exactly when currentBin is one of the bins 0..3,
\* currentBin is -1 when the drum is not homed, and a homed drum has
\* lastSelectedBin in 0..3.
C36_HomedIffBinKnown ==
  /\ homed <=> currentBin \in Bins
  /\ ~homed => currentBin = UNKNOWN
  /\ homed => lastSelectedBin \in Bins

\* runInventorySequence is entered with the drum homed at bin 3, the bin
\* last selected
C36_Witness ==
  /\ pc = "inv_entry"
  /\ homed
  /\ currentBin = 3
  /\ lastSelectedBin = 3
  /\ inventoryPending

\* C37: whenever the drum is homed, the latch clear and no motion in
\* progress, the drum stands at the notch of bin currentBin (homing having
\* measured a threshold that tells the short gap after the encoder artifact
\* from the gap before it).
C37_LogicalBinIsPhysicalSlot ==
  (/\ pc = "n_idle"
   /\ homed
   /\ ~estop
   /\ encoderGapThresholdSteps <= GapAfter(3))
  => currentBin = drum

\* C38: a moveOneBin that fails in a seek or in the offset burst leaves homed
\* true and currentBin as it was; when the moveBins of a moveToBin fails at
\* its k-th moveOneBin, currentBin is k-1 slots past the bin moveToBin
\* started from; and the bin command that failed does not write
\* lastSelectedBin.
C38_FailedMoveKeepsPosition ==
  [][/\ (pc \in {"n_mob_seek", "n_mob_offset"} /\ stack' = Tail(stack) /\ ~ret')
        => /\ homed
           /\ UNCHANGED <<homed, currentBin>>
     /\ (pc = "n_mbs_ret" /\ ~ret /\ stack[2].pc = "n_mtb_ret")
        => /\ currentBin = (stack[2].a - Top.a + Top.b + 4) % 4
           /\ UNCHANGED <<homed, currentBin, lastSelectedBin>>
     /\ (pc \in {"n_mtb_ret", "n_ret"} /\ Top.a = 1 /\ ~ret)
        => UNCHANGED <<homed, currentBin, lastSelectedBin>>]_vars

\* a move from bin 3 to bin 2 has failed on a guard at its second
\* moveOneBin: the drum is homed, currentBin is 0
C38_Witness ==
  /\ pc = "n_mbs_ret"
  /\ ~ret
  /\ ~estop
  /\ stack[2].pc = "n_mtb_ret"
  /\ stack[2].a = 2
  /\ Top.a = 3
  /\ Top.b = 1
  /\ homed
  /\ currentBin = 0
  /\ lastSelectedBin = 3

\* C39: an 'i' that is not run at once is queued (a request appears only in
\* the command loop, with the inventory not runnable, and no sequence is
\* started); the request stays until an inventory sequence is started or
\* homeRoutine is entered; and the drain made by the gate update that sets
\* inventoryPending, finding a request and the latch clear, starts the
\* inventory sequence.
C39_QueuedInventoryRunsWhenPending ==
  [][/\ obsInvFresh' => inventoryRequested'
     /\ (~inventoryRequested /\ inventoryRequested')
        => /\ pc = "loop_read"
           /\ ~InventoryRunnable
           /\ Head(stack').pc = "loop_top"
     /\ (inventoryRequested /\ ~inventoryRequested')
        => Head(stack').pc \in {"inv_entry", "home_sample"}
     /\ (/\ pc = "try_entry"
         /\ stack' # stack
         /\ stack[2].pc \in {"loop_drain", "boot_drain", "loop_bin_gate"}
         /\ inventoryRequested
         /\ ~estop)
        => /\ Head(stack').pc = "inv_entry"
           /\ ~inventoryRequested']_vars

\* the gate has just become ready with an 'i' waiting in the queue: the
\* drain of the gate update is about to run it
C39_Witness ==
  /\ pc = "try_entry"
  /\ stack[2].pc = "loop_drain"
  /\ inventoryRequested
  /\ inventoryPending
  /\ obsGate = "ready"
  /\ homed
  /\ lastSelectedBin > 0
  /\ ~estop

============================================================================
